---- MODULE Spec2Model ----
(***************************************************************************)
(* Ticket lifecycle and assignment core of the helpdesk backend            *)
(* (TicketService, SmartAssignmentService, TechnicianService).             *)
(*                                                                         *)
(* The store is the EF Core context: Tickets, Technicians, Users,          *)
(* TicketMessages, plus the notification sink.  Every service method is    *)
(* one action (one request handled to completion, one SaveChanges).  A     *)
(* request is taken while no response is outstanding; the response is      *)
(* kept in `last` until it is delivered (Deliver).  SpecRace and           *)
(* SpecWrite take AssignTechnicianToTicketAsync one database round trip    *)
(* at a time, with other requests in between; SpecWrite also takes         *)
(* UpdateTicketAsync and AddMessageAsync with their load and their save    *)
(* apart.                                                                  *)
(*                                                                         *)
(* Not modelled: Title, Category, Subcategory and the text search filter   *)
(* (no modelled operation reads or writes them after creation) and the     *)
(* profile fields of users and technicians other than the e-mail address.  *)
(* A string is the sequence of its characters.                             *)
(***************************************************************************)
EXTENDS Integers, Sequences, FiniteSets, TLC

\* ------------------------------------------------------------------ bounds

MaxTickets == 1
MaxMessages == 1
MaxTime == 1
\* Tickets of the load-balancing and of the batch specification.
MaxAssignTickets == 3
MaxBatchTickets == 2
\* Tickets of the interleaving specification.
MaxRaceTickets == 2
\* Tickets while TicketService calls and the engine write the same row.
MaxWriteTickets == 1
\* Tickets a batch run takes one after the other.
MaxStopTickets == 3
\* Messages on a ticket while the other operations act on it.
MaxThreadMessages == 2

\* ------------------------------------------------------------- value sets

NULL == "null"
\* A DateTime? without a value (UpdatedAt, DueDate).
NoTime == -1

Statuses == {"New", "InProgress", "WaitingForClient", "Resolved", "Closed"}
Priorities == {"Low", "Medium", "High", "Critical"}
Roles == {"Client", "Technician", "Admin"}

\* Users of the store: two clients, two technician accounts, one admin.
ClientIds == {"c1", "c2"}
TechUserIds == {"u1", "u2"}
AdminIds == {"a1"}
UserIds == ClientIds \cup TechUserIds \cup AdminIds
\* An id no user has (FirstOrDefaultAsync finds nothing).
GhostUser == "u0"
\* The ids Guid.NewGuid() gives the users that RegisterAsync adds.
NewUserIds == {"n1", "n2"}

\* string.ToLowerInvariant, character by character: the capital letters that
\* occur in the e-mail addresses of the requests, and what they become.
LowerCase ==
    [A |-> "a", C |-> "c", D |-> "d", I |-> "i", M |-> "m", N |-> "n", T |-> "t"]

\* Variant: the address is kept as it was typed.
ToLowerInvariant_AsTyped(s) ==
    s

ToLowerInvariant(s) ==
    [i \in DOMAIN s |-> IF s[i] \in DOMAIN LowerCase THEN LowerCase[s[i]] ELSE s[i]]

\* string.IsNullOrWhiteSpace; a null string and "" are both <<>>.
IsNullOrWhiteSpace(s) ==
    \A i \in DOMAIN s : s[i] = " "

\* EF.Functions.Like(s, "%pattern%"): pattern occurs in s, letters compared
\* without case.
Like(s, pattern) ==
    \E i \in 0..(Len(s) - Len(pattern)) :
        \A j \in DOMAIN pattern :
            ToLowerInvariant(<<s[i + j]>>) = ToLowerInvariant(<<pattern[j]>>)

\* "admin", of the pattern %admin% of CleanupInvalidAdminUsers.
AdminWord == <<"a", "d", "m", "i", "n">>

\* E-mail addresses of the seeded users (admin@t, u1@t, ...).
SeedEmail(u) ==
    CASE u = "a1" -> <<"a", "d", "m", "i", "n", "@", "t">>
      [] u = "u1" -> <<"u", "1", "@", "t">>
      [] u = "u2" -> <<"u", "2", "@", "t">>
      [] u = "c1" -> <<"c", "1", "@", "t">>
      [] OTHER -> <<"c", "2", "@", "t">>

\* IPasswordHasher<User>: HashPassword and VerifyHashedPassword.
HashPassword(password) ==
    <<"hash", password>>

VerifyHashedPassword(hash, password) ==
    hash = HashPassword(password)

\* Passwords of the requests: the one the seeded and the registered users
\* start with, another one, one of two characters and one without a digit.
FirstPassword == <<"p", "a", "s", "s", "w", "0", "r", "d">>
OtherPassword == <<"w", "o", "r", "d", "1", "2", "3", "4">>
ShortPassword == <<"p", "1">>
LettersPassword == <<"p", "a", "s", "s", "w", "o", "r", "d">>
Digits == {"0", "1", "2", "3", "4"}

\* ChangePasswordAsync: fewer than 8 characters.
MinPasswordLength == 8

\* Technician profiles.  Guids are compared by ThenBy(t => t.TechnicianId);
\* TechnicianOrder is that total order.
TechnicianOrder == <<"k1", "k2", "k3">>
TechnicianIds == {TechnicianOrder[i] : i \in 1..Len(TechnicianOrder)}
GhostTechnician == "k0"
\* The id Guid.NewGuid() gives a profile that CreateTechnicianAsync adds.
NewTechnicianId == "k4"

VARIABLES
    users,          \* user id -> [Role, Email, PasswordHash, CreatedAt]
    technicians,    \* technician id -> [IsActive, UserId]
    tickets,        \* sequence of tickets; a ticket's id is its index
    messages,       \* sequence of TicketMessage rows, in insertion order
    notifications,  \* sequence of notifications handed to the sink
    now,            \* DateTime.UtcNow
    last,           \* the response not yet delivered, or Idle
    settings,       \* the SystemSettings row: [AutoAssignEnabled]
    engine,         \* the AssignTechnicianToTicketAsync call in progress
    pending         \* a TicketService or UserService call between two awaits

vars == <<users, technicians, tickets, messages, notifications, now, last,
          settings, engine, pending>>

Idle == [op |-> "Idle"]

\* No AssignTechnicianToTicketAsync call is between two of its awaits.
NoCall == [pc |-> "none"]

\* A nullable result (Task<T?>): None is null, Some(v) is the value v.
None == <<>>
Some(v) == <<v>>

TicketIds == DOMAIN tickets

RoleOf(u) == users[u].Role

\* The row FirstOrDefaultAsync(t => t.Id == id) loads, kept with the response
\* so that a response can be read against the ticket it was computed from.
Loaded(id) == IF id \in TicketIds THEN Some(tickets[id]) ELSE None

\* ------------------------------------------------------------ TicketService

\* Variant: the assigned fields are filled from the technician profile
\* whenever there is one.
MapToResponse_FromTechnician(tk, id) ==
    LET t == tk[id]
        contact == IF t.TechnicianId # NULL THEN t.TechnicianId
                   ELSE t.AssignedToUserId
    IN [Id |-> id,
        Description |-> t.Description,
        Priority |-> t.Priority,
        Status |-> t.Status,
        CreatedByUserId |-> t.CreatedByUserId,
        AssignedToUserId |-> t.AssignedToUserId,
        AssignedToName |-> contact,
        AssignedToEmail |-> contact,
        AssignedToPhoneNumber |-> contact,
        AssignedTechnicianName |-> contact,
        CreatedAt |-> t.CreatedAt,
        UpdatedAt |-> t.UpdatedAt,
        DueDate |-> t.DueDate]

\* TicketService.MapToResponse.  The FullName, Email and Phone shown are
\* represented by the id of the profile or user they are read from:
\* Technician?.X ?? AssignedToUser?.X.
MapToResponse(tk, id) ==
    LET t == tk[id]
        isAssigned == t.AssignedToUserId # NULL
        contact == IF t.TechnicianId # NULL THEN t.TechnicianId
                   ELSE t.AssignedToUserId
    IN [Id |-> id,
        Description |-> t.Description,
        Priority |-> t.Priority,
        Status |-> t.Status,
        CreatedByUserId |-> t.CreatedByUserId,
        AssignedToUserId |-> t.AssignedToUserId,
        AssignedToName |-> IF isAssigned THEN contact ELSE NULL,
        AssignedToEmail |-> IF isAssigned THEN contact ELSE NULL,
        AssignedToPhoneNumber |-> IF isAssigned THEN contact ELSE NULL,
        AssignedTechnicianName |-> IF isAssigned THEN contact ELSE NULL,
        CreatedAt |-> t.CreatedAt,
        UpdatedAt |-> t.UpdatedAt,
        DueDate |-> t.DueDate]

\* TicketService.GetTicketAsync over the ticket table tk.
GetTicketAsync(tk, id, userId, role) ==
    IF id \notin DOMAIN tk THEN None
    ELSE IF role = "Client" /\ tk[id].CreatedByUserId # userId THEN None
    ELSE IF role = "Technician" /\ tk[id].TechnicianId # userId
            /\ tk[id].AssignedToUserId # userId THEN None
    ELSE Some(MapToResponse(tk, id))

\* Variant: the Technician case is missing from the switch.
RoleVisible_NoTechnicianFilter(t, userId, role) ==
    CASE role = "Client" -> t.CreatedByUserId = userId
      [] OTHER -> TRUE

\* Variant: a Technician's list is matched on the profile id alone.
RoleVisible_ByTechnicianId(t, userId, role) ==
    CASE role = "Client" -> t.CreatedByUserId = userId
      [] role = "Technician" -> t.TechnicianId = userId
      [] OTHER -> TRUE

\* The role restriction of GetTicketsAsync (the `role switch`).
RoleVisible(t, userId, role) ==
    CASE role = "Client" -> t.CreatedByUserId = userId
      [] role = "Technician" -> t.TechnicianId = userId \/ t.AssignedToUserId = userId
      [] OTHER -> TRUE

\* The optional filters of GetTicketsAsync (status, priority, assignedTo,
\* createdBy), each NULL when absent.
FilterMatches(t, f) ==
    /\ f.status # NULL => t.Status = f.status
    /\ f.priority # NULL => t.Priority = f.priority
    /\ f.assignedTo # NULL => t.AssignedToUserId = f.assignedTo
    /\ f.createdBy # NULL => t.CreatedByUserId = f.createdBy

\* TicketService.GetTicketsAsync: the ids of the tickets returned (the
\* result is the set of their responses; its order is not modelled).
GetTicketsAsync(tk, userId, role, f) ==
    {id \in DOMAIN tk : RoleVisible(tk[id], userId, role) /\ FilterMatches(tk[id], f)}

\* TicketService.GetMessagesAsync: the positions in the message table of
\* the messages returned.
GetMessagesAsync(tk, msgs, ticketId, userId, role) ==
    IF GetTicketAsync(tk, ticketId, userId, role) = None THEN {}
    ELSE {i \in DOMAIN msgs : msgs[i].TicketId = ticketId}

\* The ticket CreateTicketAsync inserts.
NewTicket(userId, request, time) ==
    [Description |-> request.Description,
     Priority |-> request.Priority,
     Status |-> "New",
     CreatedByUserId |-> userId,
     TechnicianId |-> NULL,
     AssignedToUserId |-> NULL,
     DueDate |-> NoTime,
     CreatedAt |-> time,
     UpdatedAt |-> NoTime]

\* Variant: the Technician rule is missing.
UpdateAccessDenied_ClientOnly(t, userId, role) ==
    role = "Client" /\ t.CreatedByUserId # userId

\* UpdateTicketAsync: the two permission rules that answer null.
UpdateAccessDenied(t, userId, role) ==
    \/ role = "Client" /\ t.CreatedByUserId # userId
    \/ role = "Technician" /\ t.TechnicianId # userId /\ t.AssignedToUserId # userId

\* Variant: Priority is written for every role.
ApplyDescriptionPriority_PriorityAnyRole(t, role, request) ==
    LET d == IF request.Description # NULL /\ role # "Technician"
             THEN request.Description ELSE t.Description
        p == IF request.Priority # NULL THEN request.Priority ELSE t.Priority
    IN [t EXCEPT !.Description = d, !.Priority = p]

\* UpdateTicketAsync: Description and Priority.
ApplyDescriptionPriority(t, role, request) ==
    LET d == IF request.Description # NULL /\ role # "Technician"
             THEN request.Description ELSE t.Description
        p == IF request.Priority # NULL /\ role # "Technician"
             THEN request.Priority ELSE t.Priority
    IN [t EXCEPT !.Description = d, !.Priority = p]

\* Variant: a Client may also set Resolved.
ApplyUpdateStatus_ClientResolved(t, role, request) ==
    IF request.Status = NULL THEN t
    ELSE IF role = "Client"
         THEN IF request.Status \in {"WaitingForClient", "Closed", "Resolved"}
              THEN [t EXCEPT !.Status = request.Status]
              ELSE t
    ELSE [t EXCEPT !.Status = request.Status]

\* Variant: a Technician cannot move a ticket out of Closed.
ApplyUpdateStatus_TechnicianClosedFinal(t, role, request) ==
    IF request.Status = NULL THEN t
    ELSE IF role = "Client"
         THEN IF request.Status \in {"WaitingForClient", "Closed"}
              THEN [t EXCEPT !.Status = request.Status]
              ELSE t
    ELSE IF role = "Technician"
         THEN IF t.Status = "Closed" THEN t ELSE [t EXCEPT !.Status = request.Status]
    ELSE [t EXCEPT !.Status = request.Status]

\* UpdateTicketAsync: Status.
ApplyUpdateStatus(t, role, request) ==
    IF request.Status = NULL THEN t
    ELSE IF role = "Client"
         THEN IF request.Status \in {"WaitingForClient", "Closed"}
              THEN [t EXCEPT !.Status = request.Status]
              ELSE t
    ELSE IF role = "Technician"
         THEN [t EXCEPT !.Status = request.Status]
    ELSE [t EXCEPT !.Status = request.Status]

\* Variant: DueDate is written when the patch carries one.
ApplyAdminFields_DueWhenPresent(t, role, request) ==
    IF role = "Admin"
    THEN [t EXCEPT !.AssignedToUserId =
                       IF request.AssignedToUserId # NULL
                       THEN request.AssignedToUserId ELSE @,
                   !.DueDate =
                       IF request.DueDate # NoTime THEN request.DueDate ELSE @]
    ELSE t

\* Variant: DueDate is written outside the Admin block.
ApplyAdminFields_DueAnyRole(t, role, request) ==
    [t EXCEPT !.AssignedToUserId =
                  IF role = "Admin" /\ request.AssignedToUserId # NULL
                  THEN request.AssignedToUserId ELSE @,
              !.DueDate = request.DueDate]

\* UpdateTicketAsync: the Admin-only fields.
ApplyAdminFields(t, role, request) ==
    IF role = "Admin"
    THEN [t EXCEPT !.AssignedToUserId =
                       IF request.AssignedToUserId # NULL
                       THEN request.AssignedToUserId ELSE @,
                   !.DueDate = request.DueDate]
    ELSE t

\* UpdateTicketAsync: the ticket as saved.
UpdatedTicket(t, role, request, time) ==
    [ApplyAdminFields(
        ApplyUpdateStatus(
            ApplyDescriptionPriority(t, role, request), role, request),
        role, request)
     EXCEPT !.UpdatedAt = time]

\* AddMessageAsync: the two access-control rules that answer null.
MessageAccessDenied(t, authorId, authorRole) ==
    \/ authorRole = "Client" /\ t.CreatedByUserId # authorId
    \/ authorRole = "Technician" /\ t.TechnicianId # authorId
                                 /\ t.AssignedToUserId # authorId

IsClosingStatus(newStatus) == newStatus \in {"Resolved", "Closed"}

\* Variant: a reopen is recognised from Resolved only.
IsReopening_ResolvedOnly(t, newStatus) ==
    newStatus = "InProgress" /\ t.Status = "Resolved"

IsReopening(t, newStatus) ==
    newStatus = "InProgress" /\ t.Status \in {"Resolved", "Closed"}

\* Variant: only Closed counts as closing.
StatusChangeForbidden_ClosedOnly(authorRole, status) ==
    status # NULL /\ authorRole = "Client" /\ status = "Closed"

\* AddMessageAsync: does the status rule throw StatusChangeForbiddenException?
StatusChangeForbidden(authorRole, status) ==
    status # NULL /\ authorRole = "Client" /\ IsClosingStatus(status)

\* Variant: a Client's non-closing status is applied like anyone else's.
MessageStatus_ClientAny(t, authorRole, status) ==
    IF status = NULL THEN t.Status ELSE status

\* AddMessageAsync: the ticket status after the status rule (no throw).
MessageStatus(t, authorRole, status) ==
    IF status = NULL THEN t.Status
    ELSE IF authorRole = "Client"
         THEN IF IsReopening(t, status) \/ status = "WaitingForClient"
              THEN status
              ELSE t.Status
    ELSE status

\* AddMessageAsync: the TicketMessage row; Status = status ?? ticket.Status.
NewMessage(t, ticketId, authorId, status, time) ==
    [TicketId |-> ticketId,
     AuthorUserId |-> authorId,
     CreatedAt |-> time,
     Status |-> IF status # NULL THEN status ELSE t.Status]

\* AddMessageAsync: the user notified ("opposite participant").
NotifyUserId(t, authorId) ==
    IF t.AssignedToUserId = authorId THEN t.CreatedByUserId
    ELSE IF t.AssignedToUserId # NULL THEN t.AssignedToUserId
    ELSE t.CreatedByUserId

\* AssignTicketAsync: the ticket as saved.
ManuallyAssigned(t, technicianId, tech, time) ==
    [t EXCEPT !.TechnicianId = technicianId,
              !.AssignedToUserId = tech[technicianId].UserId,
              !.Status = "InProgress",
              !.UpdatedAt = time]

\* --------------------------------------------------- SmartAssignmentService

\* Variant: the IsActive test is missing from the Where clause.
EligibleTechnicians_LinkedOnly(tech) ==
    {k \in DOMAIN tech : tech[k].UserId # NULL}

\* Variant: the Where clause joins its two tests with || instead of &&.
EligibleTechnicians_ActiveOrLinked(tech) ==
    {k \in DOMAIN tech : tech[k].IsActive \/ tech[k].UserId # NULL}

\* Technicians active and linked to a user.
EligibleTechnicians(tech) ==
    {k \in DOMAIN tech : tech[k].IsActive /\ tech[k].UserId # NULL}

\* Variant: every ticket of the technician counts, whatever its status.
LoadCount_AnyStatus(tk, k) ==
    Cardinality({id \in DOMAIN tk : tk[id].TechnicianId = k})

\* Count of the technician's tickets in New or InProgress.
LoadCount(tk, k) ==
    Cardinality({id \in DOMAIN tk : tk[id].TechnicianId = k
                                     /\ tk[id].Status \in {"New", "InProgress"}})

Rank(k) == CHOOSE i \in 1..Len(TechnicianOrder) : TechnicianOrder[i] = k

\* Variant: ties are broken by descending id.
SelectTechnician_HighestId(tk, eligible) ==
    CHOOSE k \in eligible :
        \A o \in eligible \ {k} :
            \/ LoadCount(tk, k) < LoadCount(tk, o)
            \/ LoadCount(tk, k) = LoadCount(tk, o) /\ Rank(k) > Rank(o)

\* Variant: the loads are not looked at, the lowest id is taken.
LeastLoaded_LowestId(loads) ==
    CHOOSE k \in DOMAIN loads : \A o \in DOMAIN loads : Rank(k) <= Rank(o)

\* OrderBy(LoadCount).ThenBy(TechnicianId).First() over technicianLoads, a
\* non-empty function from technician ids to load counts.
LeastLoaded(loads) ==
    CHOOSE k \in DOMAIN loads :
        \A o \in DOMAIN loads \ {k} :
            \/ loads[k] < loads[o]
            \/ loads[k] = loads[o] /\ Rank(k) < Rank(o)

\* The technician selected when every load is counted on the same ticket
\* table tk.
SelectTechnician(tk, eligible) ==
    LeastLoaded([k \in eligible |-> LoadCount(tk, k)])

\* Variant: only a New ticket is moved to InProgress.
SmartAssigned_FromNewOnly(t, k, tech, time) ==
    [t EXCEPT !.TechnicianId = k,
              !.AssignedToUserId = tech[k].UserId,
              !.Status = IF @ = "New" THEN "InProgress" ELSE @,
              !.UpdatedAt = time]

\* Variant: the status is left as it was.
SmartAssigned_KeepsStatus(t, k, tech, time) ==
    [t EXCEPT !.TechnicianId = k,
              !.AssignedToUserId = tech[k].UserId,
              !.UpdatedAt = time]

\* Variant: TechnicianId is not written.
SmartAssigned_UserOnly(t, k, tech, time) ==
    [t EXCEPT !.AssignedToUserId = tech[k].UserId,
              !.Status = "InProgress",
              !.UpdatedAt = time]

\* The assignment write of AssignTechnicianToTicketAsync.
SmartAssigned(t, k, tech, time) ==
    [t EXCEPT !.TechnicianId = k,
              !.AssignedToUserId = tech[k].UserId,
              !.Status = "InProgress",
              !.UpdatedAt = time]

\* Variant: a ticket with an assigned user is taken as assigned too.
NotAssignable_AssignedUser(tk, ticketId) ==
    \/ ticketId \notin DOMAIN tk
    \/ tk[ticketId].TechnicianId # NULL
    \/ tk[ticketId].AssignedToUserId # NULL

\* Variant: only a missing ticket is refused.
NotAssignable_MissingOnly(tk, ticketId) ==
    ticketId \notin DOMAIN tk

\* The first guard of AssignTechnicianToTicketAsync: ticket not found or
\* already assigned.
NotAssignable(tk, ticketId) ==
    ticketId \notin DOMAIN tk \/ tk[ticketId].TechnicianId # NULL

\* AssignTechnicianToTicketAsync run to completion on (tk, tech): the ticket
\* table afterwards and the technician id returned (NULL: no assignment).
AssignTechnicianToTicketAsync(tk, tech, ticketId, time) ==
    IF NotAssignable(tk, ticketId)
    THEN [tickets |-> tk, result |-> NULL]
    ELSE IF EligibleTechnicians(tech) = {}
    THEN [tickets |-> tk, result |-> NULL]
    ELSE LET k == SelectTechnician(tk, EligibleTechnicians(tech))
         IN IF k \notin DOMAIN tech THEN [tickets |-> tk, result |-> NULL]
            ELSE IF tech[k].UserId = NULL THEN [tickets |-> tk, result |-> NULL]
            ELSE [tickets |-> [tk EXCEPT ![ticketId] = SmartAssigned(@, k, tech, time)],
                  result |-> k]

\* Variant: the end of the range is exclusive.
UnassignedTickets_ExclusiveEnd(tk, startDate, endDate) ==
    {id \in DOMAIN tk :
        /\ tk[id].TechnicianId = NULL
        /\ startDate # NoTime => tk[id].CreatedAt >= startDate
        /\ endDate # NoTime => tk[id].CreatedAt < endDate}

\* The query of AssignUnassignedTicketsAsync: unassigned tickets created
\* within [startDate, endDate], each bound optional (NoTime).
UnassignedTickets(tk, startDate, endDate) ==
    {id \in DOMAIN tk :
        /\ tk[id].TechnicianId = NULL
        /\ startDate # NoTime => tk[id].CreatedAt >= startDate
        /\ endDate # NoTime => tk[id].CreatedAt <= endDate}

\* The foreach of AssignUnassignedTicketsAsync over the ids in `order`.
RECURSIVE AssignEach(_, _, _, _, _)
AssignEach(tk, tech, order, time, count) ==
    IF order = <<>> THEN [tickets |-> tk, result |-> count]
    ELSE LET r == AssignTechnicianToTicketAsync(tk, tech, Head(order), time)
         IN AssignEach(r.tickets, tech, Tail(order), time,
                       IF r.result # NULL THEN count + 1 ELSE count)

\* The orders in which ToListAsync may return a set of rows.
Orders(S) ==
    {o \in [1..Cardinality(S) -> S] : \A i, j \in DOMAIN o : i # j => o[i] # o[j]}

\* ----------------------------------------------------------------- inputs

\* Ticket ids a request may name; an id beyond Len(tickets) names no ticket.
LookupIds == 1..MaxTickets
Times == 0..MaxTime

CreateRequests == [Description : {"d0"}, Priority : {"Medium"}]

\* Patches of UpdateTicketAsync: every combination of present and absent
\* fields.
UpdateRequests ==
    [Description : {NULL, "d1"},
     Priority : {NULL, "High"},
     Status : {NULL} \cup Statuses,
     AssignedToUserId : {NULL, "u1"},
     DueDate : {NoTime, MaxTime}]

\* Patches that carry at most a status and an assignee.
StatusRequests ==
    {r \in UpdateRequests :
        r.Description = NULL /\ r.Priority = NULL /\ r.DueDate = NoTime}

Filters ==
    [status : {NULL, "InProgress"},
     priority : {NULL},
     assignedTo : {NULL, "u1"},
     createdBy : {NULL, "c1"}]

\* TechnicianTicketsController.GetMyTickets: every filter absent.
NoFilter ==
    [status |-> NULL, priority |-> NULL, assignedTo |-> NULL, createdBy |-> NULL]

\* ------------------------------------------------------------------- state

InitUsers ==
    [u \in UserIds |->
        [Role |-> IF u \in ClientIds THEN "Client"
                  ELSE IF u \in TechUserIds THEN "Technician"
                  ELSE "Admin",
         Email |-> SeedEmail(u),
         PasswordHash |-> HashPassword(FirstPassword),
         CreatedAt |-> 0]]

\* Three profiles as CreateTechnicianAsync, LinkUserAsync and
\* UpdateTechnicianStatusAsync leave them: k1 is active and linked to u1, k2
\* is active and was never linked, k3 is linked to u2 and was deactivated.
InitTechnicians ==
    [k \in TechnicianIds |->
        CASE k = "k1" -> [IsActive |-> TRUE, UserId |-> "u1"]
          [] k = "k2" -> [IsActive |-> TRUE, UserId |-> NULL]
          [] OTHER -> [IsActive |-> FALSE, UserId |-> "u2"]]

\* The seeded SystemSettings row.
InitSettings == [AutoAssignEnabled |-> FALSE]

Init ==
    /\ users = InitUsers
    /\ technicians = InitTechnicians
    /\ tickets = <<>>
    /\ messages = <<>>
    /\ notifications = <<>>
    /\ now = 0
    /\ last = Idle
    /\ settings = InitSettings
    /\ engine = NoCall
    /\ pending = NoCall

\* ----------------------------------------------------------------- actions

\* DateTime.UtcNow advances between requests.
Tick ==
    /\ last = Idle
    /\ now' = now + 1
    /\ UNCHANGED <<users, technicians, tickets, messages, notifications, last, settings, engine, pending>>

\* The response reaches the caller.
Deliver ==
    /\ last # Idle
    /\ last' = Idle
    /\ UNCHANGED <<users, technicians, tickets, messages, notifications, now, settings, engine, pending>>

\* Variant: with the toggle on, the new ticket is handed to the engine.
CreateTicket_AutoAssign(userId, request) ==
    LET created == Append(tickets, NewTicket(userId, request, now))
        r == IF settings.AutoAssignEnabled
             THEN AssignTechnicianToTicketAsync(created, technicians, Len(created), now)
             ELSE [tickets |-> created, result |-> NULL]
    IN /\ last = Idle
       /\ tickets' = r.tickets
       /\ last' = [op |-> "CreateTicket", userId |-> userId,
                   result |-> Some(MapToResponse(tickets', Len(tickets')))]
       /\ UNCHANGED <<users, technicians, messages, notifications, now, settings, engine, pending>>

CreateTicket(userId, request) ==
    /\ last = Idle
    /\ tickets' = Append(tickets, NewTicket(userId, request, now))
    /\ last' = [op |-> "CreateTicket", userId |-> userId,
                result |-> Some(MapToResponse(tickets', Len(tickets')))]
    /\ UNCHANGED <<users, technicians, messages, notifications, now, settings, engine, pending>>

GetTicket(id, userId) ==
    /\ last = Idle
    /\ last' = [op |-> "GetTicket", id |-> id, userId |-> userId,
                role |-> RoleOf(userId),
                result |-> GetTicketAsync(tickets, id, userId, RoleOf(userId))]
    /\ UNCHANGED <<users, technicians, tickets, messages, notifications, now, settings, engine, pending>>

GetTickets(userId, f) ==
    /\ last = Idle
    /\ last' = [op |-> "GetTickets", userId |-> userId, role |-> RoleOf(userId),
                filter |-> f,
                result |-> GetTicketsAsync(tickets, userId, RoleOf(userId), f)]
    /\ UNCHANGED <<users, technicians, tickets, messages, notifications, now, settings, engine, pending>>

GetMessages(id, userId) ==
    /\ last = Idle
    /\ last' = [op |-> "GetMessages", id |-> id, userId |-> userId,
                role |-> RoleOf(userId),
                result |-> GetMessagesAsync(tickets, messages, id, userId,
                                            RoleOf(userId))]
    /\ UNCHANGED <<users, technicians, tickets, messages, notifications, now, settings, engine, pending>>

UpdateTicket(id, userId, request) ==
    LET role == RoleOf(userId)
        denied == id \notin TicketIds \/ UpdateAccessDenied(tickets[id], userId, role)
    IN /\ last = Idle
       /\ tickets' = IF denied THEN tickets
                     ELSE [tickets EXCEPT ![id] = UpdatedTicket(@, role, request, now)]
       /\ last' = [op |-> "UpdateTicket", id |-> id, userId |-> userId,
                   role |-> role, request |-> request, before |-> Loaded(id),
                   result |-> IF denied THEN None
                              ELSE GetTicketAsync(tickets', id, userId, role)]
       /\ UNCHANGED <<users, technicians, messages, notifications, now, settings, engine, pending>>

\* Variant: a ticket that has a technician is refused.
AssignTicket_UnassignedOnly(id, technicianId) ==
    LET denied == \/ id \notin TicketIds
                  \/ tickets[id].TechnicianId # NULL
                  \/ technicianId \notin DOMAIN technicians
                  \/ ~technicians[technicianId].IsActive
    IN /\ last = Idle
       /\ tickets' = IF denied THEN tickets
                     ELSE [tickets EXCEPT
                              ![id] = ManuallyAssigned(@, technicianId, technicians, now)]
       /\ last' = [op |-> "AssignTicket", id |-> id, technicianId |-> technicianId,
                   before |-> Loaded(id),
                   result |-> IF denied THEN None
                              ELSE GetTicketAsync(tickets', id, NULL, "Admin")]
       /\ UNCHANGED <<users, technicians, messages, notifications, now, settings, engine, pending>>

AssignTicket(id, technicianId) ==
    LET denied == \/ id \notin TicketIds
                  \/ technicianId \notin DOMAIN technicians
                  \/ ~technicians[technicianId].IsActive
    IN /\ last = Idle
       /\ tickets' = IF denied THEN tickets
                     ELSE [tickets EXCEPT
                              ![id] = ManuallyAssigned(@, technicianId, technicians, now)]
       /\ last' = [op |-> "AssignTicket", id |-> id, technicianId |-> technicianId,
                   before |-> Loaded(id),
                   result |-> IF denied THEN None
                              ELSE GetTicketAsync(tickets', id, NULL, "Admin")]
       /\ UNCHANGED <<users, technicians, messages, notifications, now, settings, engine, pending>>

\* Variant: the messages of the ticket are brought to its new status.
AddMessage_RestampsThread(ticketId, authorId, status) ==
    LET missing == ticketId \notin TicketIds \/ authorId \notin DOMAIN users
        t == tickets[ticketId]
        role == RoleOf(authorId)
        denied == missing \/ MessageAccessDenied(t, authorId, role)
        forbidden == ~denied /\ StatusChangeForbidden(role, status)
        saved == [t EXCEPT !.Status = MessageStatus(t, role, status),
                           !.UpdatedAt = now]
        row == NewMessage(saved, ticketId, authorId, status, now)
    IN /\ last = Idle
       /\ IF denied \/ forbidden
          THEN UNCHANGED <<tickets, messages, notifications>>
          ELSE /\ tickets' = [tickets EXCEPT ![ticketId] = saved]
               /\ messages' = Append([i \in DOMAIN messages |->
                                         IF messages[i].TicketId = ticketId
                                         THEN [messages[i] EXCEPT
                                                  !.Status = saved.Status]
                                         ELSE messages[i]], row)
               /\ notifications' = Append(notifications,
                                          [UserId |-> NotifyUserId(saved, authorId),
                                           TicketId |-> ticketId])
       /\ last' = [op |-> "AddMessage", id |-> ticketId, userId |-> authorId,
                   role |-> IF authorId \in DOMAIN users THEN role ELSE NULL,
                   status |-> status, before |-> Loaded(ticketId),
                   thrown |-> IF forbidden THEN "StatusChangeForbidden" ELSE NULL,
                   result |-> IF denied \/ forbidden THEN None ELSE Some(row)]
       /\ UNCHANGED <<users, technicians, now, settings, engine, pending>>

AddMessage(ticketId, authorId, status) ==
    LET missing == ticketId \notin TicketIds \/ authorId \notin DOMAIN users
        t == tickets[ticketId]
        role == RoleOf(authorId)
        denied == missing \/ MessageAccessDenied(t, authorId, role)
        forbidden == ~denied /\ StatusChangeForbidden(role, status)
        saved == [t EXCEPT !.Status = MessageStatus(t, role, status),
                           !.UpdatedAt = now]
        row == NewMessage(saved, ticketId, authorId, status, now)
    IN /\ last = Idle
       /\ IF denied \/ forbidden
          THEN UNCHANGED <<tickets, messages, notifications>>
          ELSE /\ tickets' = [tickets EXCEPT ![ticketId] = saved]
               /\ messages' = Append(messages, row)
               /\ notifications' = Append(notifications,
                                          [UserId |-> NotifyUserId(saved, authorId),
                                           TicketId |-> ticketId])
       /\ last' = [op |-> "AddMessage", id |-> ticketId, userId |-> authorId,
                   role |-> IF authorId \in DOMAIN users THEN role ELSE NULL,
                   status |-> status, before |-> Loaded(ticketId),
                   thrown |-> IF forbidden THEN "StatusChangeForbidden" ELSE NULL,
                   result |-> IF denied \/ forbidden THEN None ELSE Some(row)]
       /\ UNCHANGED <<users, technicians, now, settings, engine, pending>>

\* Variant: the message and the ticket are written once the sink has taken
\* the notification, so that nothing is stored when it fails.
AddMessageSinkFails_RollsBack(ticketId, authorId, status) ==
    LET t == tickets[ticketId]
        role == RoleOf(authorId)
    IN /\ last = Idle
       /\ ticketId \in TicketIds
       /\ authorId \in DOMAIN users
       /\ ~MessageAccessDenied(t, authorId, role)
       /\ ~StatusChangeForbidden(role, status)
       /\ last' = [op |-> "AddMessage", id |-> ticketId, userId |-> authorId,
                   role |-> role, status |-> status, before |-> Loaded(ticketId),
                   thrown |-> "NotificationFailed", result |-> None]
       /\ UNCHANGED <<users, technicians, tickets, messages, notifications, now,
                      settings, engine, pending>>

\* AddMessageAsync when CreateNotificationAsync (line 355) throws.  The call
\* has passed the access and status rules and SaveChangesAsync (line 351) has
\* returned; nothing catches the exception, which leaves the call in place
\* of the DTO, and nothing was handed to the sink.
AddMessageSinkFails(ticketId, authorId, status) ==
    LET t == tickets[ticketId]
        role == RoleOf(authorId)
        saved == [t EXCEPT !.Status = MessageStatus(t, role, status),
                           !.UpdatedAt = now]
        row == NewMessage(saved, ticketId, authorId, status, now)
    IN /\ last = Idle
       /\ ticketId \in TicketIds
       /\ authorId \in DOMAIN users
       /\ ~MessageAccessDenied(t, authorId, role)
       /\ ~StatusChangeForbidden(role, status)
       /\ tickets' = [tickets EXCEPT ![ticketId] = saved]
       /\ messages' = Append(messages, row)
       /\ last' = [op |-> "AddMessage", id |-> ticketId, userId |-> authorId,
                   role |-> role, status |-> status, before |-> Loaded(ticketId),
                   thrown |-> "NotificationFailed", result |-> None]
       /\ UNCHANGED <<users, technicians, notifications, now, settings, engine, pending>>

AssignOne(ticketId) ==
    LET r == AssignTechnicianToTicketAsync(tickets, technicians, ticketId, now)
    IN /\ last = Idle
       /\ tickets' = r.tickets
       /\ last' = [op |-> "AssignOne", id |-> ticketId, before |-> Loaded(ticketId),
                   result |-> r.result]
       /\ UNCHANGED <<users, technicians, messages, notifications, now, settings, engine, pending>>

AssignBatch(startDate, endDate) ==
    /\ last = Idle
    /\ \E order \in Orders(UnassignedTickets(tickets, startDate, endDate)) :
          LET r == AssignEach(tickets, technicians, order, now, 0)
          IN /\ tickets' = r.tickets
             /\ last' = [op |-> "AssignBatch", startDate |-> startDate,
                         endDate |-> endDate, result |-> r.result]
    /\ UNCHANGED <<users, technicians, messages, notifications, now, settings, engine, pending>>

\* Variant: the calls of one run share a transaction, undone when it stops.
AssignBatchStopped_OneTransaction(startDate, endDate) ==
    /\ last = Idle
    /\ \E order \in Orders(UnassignedTickets(tickets, startDate, endDate)) :
          \E done \in 0..(Len(order) - 1) :
             /\ tickets' = tickets
             /\ last' = [op |-> "AssignBatchStopped", startDate |-> startDate,
                         endDate |-> endDate, order |-> order, done |-> done]
    /\ UNCHANGED <<users, technicians, messages, notifications, now, settings, engine, pending>>

\* AssignUnassignedTicketsAsync stops inside its foreach (the process dies, or
\* a call throws) when `done` calls have returned; each of them has written
\* its ticket with its own SaveChangesAsync.  No response is produced; what
\* is recorded is the list the run had loaded and how far it got.
AssignBatchStopped(startDate, endDate) ==
    /\ last = Idle
    /\ \E order \in Orders(UnassignedTickets(tickets, startDate, endDate)) :
          \E done \in 0..(Len(order) - 1) :
             LET r == AssignEach(tickets, technicians, SubSeq(order, 1, done), now, 0)
             IN /\ tickets' = r.tickets
                /\ last' = [op |-> "AssignBatchStopped", startDate |-> startDate,
                            endDate |-> endDate, order |-> order, done |-> done]
    /\ UNCHANGED <<users, technicians, messages, notifications, now, settings, engine, pending>>

\* ------------------------------------------ TechnicianService, settings

\* TechnicianService.CreateTechnicianAsync: a profile with a fresh id, the
\* requested IsActive and no linked user; the answer is the profile.
CreateTechnician(id, isActive) ==
    /\ last = Idle
    /\ id \notin DOMAIN technicians
    /\ technicians' =
          [k \in DOMAIN technicians \cup {id} |->
              IF k = id THEN [IsActive |-> isActive, UserId |-> NULL]
              ELSE technicians[k]]
    /\ last' = [op |-> "CreateTechnician", technicianId |-> id,
                result |-> technicians'[id]]
    /\ UNCHANGED <<users, tickets, messages, notifications, now, settings, engine, pending>>

\* TechnicianService.UpdateTechnicianStatusAsync.
UpdateTechnicianStatus(id, isActive) ==
    /\ last = Idle
    /\ technicians' = IF id \in DOMAIN technicians
                      THEN [technicians EXCEPT ![id].IsActive = isActive]
                      ELSE technicians
    /\ last' = [op |-> "UpdateTechnicianStatus", technicianId |-> id,
                isActive |-> isActive, result |-> id \in DOMAIN technicians]
    /\ UNCHANGED <<users, tickets, messages, notifications, now, settings, engine, pending>>

\* TechnicianService.UpdateTechnicianAsync: the profile fields and IsActive
\* are overwritten from the request; the answer is the profile, or null.
UpdateTechnician(id, isActive) ==
    /\ last = Idle
    /\ technicians' = IF id \in DOMAIN technicians
                      THEN [technicians EXCEPT ![id].IsActive = isActive]
                      ELSE technicians
    /\ last' = [op |-> "UpdateTechnician", technicianId |-> id,
                isActive |-> isActive,
                result |-> IF id \in DOMAIN technicians
                           THEN Some(technicians'[id]) ELSE None]
    /\ UNCHANGED <<users, tickets, messages, notifications, now, settings, engine, pending>>

\* Variant: the profile is linked again whatever it is linked to.
LinkUserResult_Relinks(tech, usrs, technicianId, userId) ==
    IF technicianId \notin DOMAIN tech THEN "TechnicianNotFound"
    ELSE IF userId \notin DOMAIN usrs THEN "UserNotFound"
    ELSE IF usrs[userId].Role # "Technician" THEN "UserNotTechnicianRole"
    ELSE "Success"

\* TechnicianService.LinkUserAsync: the LinkUserResult of the call.
LinkUserResult(tech, usrs, technicianId, userId) ==
    IF technicianId \notin DOMAIN tech THEN "TechnicianNotFound"
    ELSE IF tech[technicianId].UserId # NULL THEN "AlreadyLinked"
    ELSE IF userId \notin DOMAIN usrs THEN "UserNotFound"
    ELSE IF usrs[userId].Role # "Technician" THEN "UserNotTechnicianRole"
    ELSE "Success"

LinkUser(technicianId, userId) ==
    LET res == LinkUserResult(technicians, users, technicianId, userId)
    IN /\ last = Idle
       /\ technicians' = IF res = "Success"
                         THEN [technicians EXCEPT ![technicianId].UserId = userId]
                         ELSE technicians
       /\ last' = [op |-> "LinkUser", technicianId |-> technicianId,
                   userId |-> userId, result |-> res]
       /\ UNCHANGED <<users, tickets, messages, notifications, now, settings, engine, pending>>

\* SmartAssignmentController.UpdateSmartAssignmentStatus: the toggle.
UpdateSmartAssignmentStatus(enabled) ==
    /\ last = Idle
    /\ settings' = [settings EXCEPT !.AutoAssignEnabled = enabled]
    /\ last' = [op |-> "UpdateSmartAssignmentStatus", result |-> enabled]
    /\ UNCHANGED <<users, technicians, tickets, messages, notifications, now, engine, pending>>

\* Variant: the run does not look at the toggle.
RunSmartAssignment_Ungated(start, end) ==
    AssignBatch(start, end)

\* SmartAssignmentController.RunSmartAssignment: BadRequest while the toggle
\* is off, AssignUnassignedTicketsAsync otherwise.
RunSmartAssignment(start, end) ==
    IF ~settings.AutoAssignEnabled
    THEN /\ last = Idle
         /\ last' = [op |-> "RunSmartAssignment", result |-> "BadRequest"]
         /\ UNCHANGED <<users, technicians, tickets, messages, notifications, now,
                        settings, engine, pending>>
    ELSE AssignBatch(start, end)

\* -------------------------------------------------------------- UserService

\* UserService.MapToDto.
MapToDto(usrs, id) ==
    [Id |-> id, Email |-> usrs[id].Email, Role |-> usrs[id].Role]

\* The role RegisterAsync stores: request.Role.Value.
RegisterRole(request) ==
    request.Role

\* RegisterAsync answers null: no role, a role that is no UserRole value, an
\* address some user has, or an Admin asked for by a caller who is not an
\* Admin while there are users.
RegisterRefused(usrs, request, creatorRole) ==
    \/ request.Role = NULL
    \/ request.Role \notin Roles
    \/ \E u \in DOMAIN usrs : usrs[u].Email = ToLowerInvariant(request.Email)
    \/ request.Role = "Admin" /\ DOMAIN usrs # {} /\ creatorRole # "Admin"

\* The User row RegisterAsync adds.
NewUser(request, time) ==
    [Role |-> RegisterRole(request),
     Email |-> ToLowerInvariant(request.Email),
     PasswordHash |-> HashPassword(request.Password),
     CreatedAt |-> time]

\* UserService.RegisterAsync(request, creatorRole); id is the Guid of the
\* user it adds.
Register(id, request, creatorRole) ==
    /\ last = Idle
    /\ IF RegisterRefused(users, request, creatorRole)
       THEN /\ users' = users
            /\ last' = [op |-> "Register", request |-> request,
                        creatorRole |-> creatorRole, userId |-> NULL,
                        result |-> None, thrown |-> NULL]
       ELSE /\ id \notin DOMAIN users
            /\ users' = [u \in DOMAIN users \cup {id} |->
                            IF u = id THEN NewUser(request, now) ELSE users[u]]
            /\ last' = [op |-> "Register", request |-> request,
                        creatorRole |-> creatorRole, userId |-> id,
                        result |-> Some(MapToDto(users', id)), thrown |-> NULL]
    /\ UNCHANGED <<technicians, tickets, messages, notifications, now, settings, engine, pending>>
\* UpdateProfileAsync answers null: no such user, or the address belongs to
\* another user.
UpdateProfileRefused(usrs, userId, request) ==
    \/ userId \notin DOMAIN usrs
    \/ /\ ~IsNullOrWhiteSpace(request.Email)
       /\ \E u \in DOMAIN usrs :
             u # userId /\ usrs[u].Email = ToLowerInvariant(request.Email)

\* Variant: the request may carry a role, which is stored.
UpdatedProfile_TakesRole(user, request) ==
    [user EXCEPT !.Email = IF IsNullOrWhiteSpace(request.Email) THEN @
                           ELSE ToLowerInvariant(request.Email),
                 !.Role = "Admin"]

\* The user as UpdateProfileAsync leaves it: the address is replaced when the
\* request carries one.
UpdatedProfile(user, request) ==
    IF IsNullOrWhiteSpace(request.Email) THEN user
    ELSE [user EXCEPT !.Email = ToLowerInvariant(request.Email)]

\* UserService.UpdateProfileAsync.
UpdateProfile(userId, request) ==
    /\ last = Idle
    /\ IF UpdateProfileRefused(users, userId, request)
       THEN /\ users' = users
            /\ last' = [op |-> "UpdateProfile", userId |-> userId,
                        request |-> request, result |-> None, thrown |-> NULL]
       ELSE /\ users' = [users EXCEPT ![userId] = UpdatedProfile(@, request)]
            /\ last' = [op |-> "UpdateProfile", userId |-> userId,
                        request |-> request,
                        result |-> Some(MapToDto(users', userId)), thrown |-> NULL]
    /\ UNCHANGED <<technicians, tickets, messages, notifications, now, settings, engine, pending>>
\* The answer of ChangePasswordAsync: Success, or the check that failed.
ChangePasswordResult(usrs, userId, currentPassword, newPassword, confirmNewPassword) ==
    IF newPassword # confirmNewPassword THEN "Mismatch"
    ELSE IF Len(newPassword) < MinPasswordLength THEN "TooShort"
    ELSE IF ~(/\ \E i \in DOMAIN newPassword : newPassword[i] \notin Digits
              /\ \E i \in DOMAIN newPassword : newPassword[i] \in Digits)
         THEN "NoLetterOrDigit"
    ELSE IF userId \notin DOMAIN usrs THEN "UserNotFound"
    ELSE IF ~VerifyHashedPassword(usrs[userId].PasswordHash, currentPassword)
         THEN "WrongPassword"
    ELSE IF VerifyHashedPassword(usrs[userId].PasswordHash, newPassword)
         THEN "SamePassword"
    ELSE "Success"

\* UserService.ChangePasswordAsync.
ChangePassword(userId, currentPassword, newPassword, confirmNewPassword) ==
    LET res == ChangePasswordResult(users, userId, currentPassword, newPassword,
                                    confirmNewPassword)
    IN /\ last = Idle
       /\ users' = IF res = "Success"
                   THEN [users EXCEPT
                            ![userId].PasswordHash = HashPassword(newPassword)]
                   ELSE users
       /\ last' = [op |-> "ChangePassword", userId |-> userId, result |-> res]
    /\ UNCHANGED <<technicians, tickets, messages, notifications, now, settings, engine, pending>>
\* AdminMaintenanceController.CleanupInvalidAdminUsers: the users deleted.
CleanupCandidates(usrs, cutoffUtc) ==
    {u \in DOMAIN usrs :
        /\ usrs[u].Role = "Client"
        /\ \/ Like(usrs[u].Email, AdminWord)
           \/ cutoffUtc # NoTime /\ usrs[u].CreatedAt < cutoffUtc}

\* AdminMaintenanceController.CleanupInvalidAdminUsers, in its transaction.
\* Technician.UserId is set null by the foreign key.  Taken while no ticket
\* refers to a deleted user.
CleanupInvalidAdminUsers(cutoffUtc) ==
    LET candidates == CleanupCandidates(users, cutoffUtc)
    IN /\ last = Idle
       /\ \A id \in DOMAIN tickets :
             candidates \cap {tickets[id].CreatedByUserId,
                              tickets[id].AssignedToUserId} = {}
       /\ users' = [u \in DOMAIN users \ candidates |-> users[u]]
       /\ technicians' = [k \in DOMAIN technicians |->
                             IF technicians[k].UserId \in candidates
                             THEN [technicians[k] EXCEPT !.UserId = NULL]
                             ELSE technicians[k]]
       /\ last' = [op |-> "CleanupInvalidAdminUsers", cutoffUtc |-> cutoffUtc,
                   result |-> candidates]
       /\ UNCHANGED <<tickets, messages, notifications, now, settings, engine, pending>>

\* --------------------------------------------------- SaveChangesAsync

\* The UPDATE that SaveChangesAsync sends for a tracked Ticket: change
\* detection compares the entity with the values it was materialised with and
\* the statement sets the columns that differ; the other columns of the row
\* keep what the database holds.
SaveChanges(row, loaded, entity) ==
    [c \in DOMAIN row |-> IF entity[c] # loaded[c] THEN entity[c] ELSE row[c]]

\* ------------------------- AssignTechnicianToTicketAsync, await by await

\* A call of AssignTechnicianToTicketAsync is a series of database round
\* trips; other requests are served between them.  `engine` holds the call's
\* locals and the entities its DbContext tracks:
\*   ticketId  the argument
\*   ticket    the Ticket entity as FirstOrDefaultAsync materialised it
\*   tracked   the Technician entities materialised by the eligibility query
\*   loads     technicianLoads, filled one CountAsync at a time
\*   selected  selectedTechnician.TechnicianId
\* The queries are tracking queries on one scoped DbContext (the write of the
\* ticket relies on it), so a later query that returns a tracked row yields
\* the tracked entity with the values it was materialised with.

\* The call returns: the response is handed over.
Returned(ticketId, result, thrown) ==
    /\ last = Idle
    /\ engine' = NoCall
    /\ last' = [op |-> "AssignOne", id |-> ticketId, before |-> Loaded(ticketId),
                result |-> result, thrown |-> thrown]

\* Lines 33-39: load the ticket; not found or already assigned returns null.
AssignLoadTicket(ticketId) ==
    /\ engine = NoCall
    /\ IF NotAssignable(tickets, ticketId)
       THEN Returned(ticketId, NULL, NULL)
       ELSE /\ engine' = [pc |-> "scan", ticketId |-> ticketId,
                          ticket |-> tickets[ticketId]]
            /\ UNCHANGED last
    /\ UNCHANGED <<users, technicians, tickets, messages, notifications, now, settings, pending>>

\* Lines 43-50: the eligibility query; an empty list returns null.
AssignScan ==
    /\ engine.pc = "scan"
    /\ LET eligible == EligibleTechnicians(technicians)
       IN IF eligible = {}
          THEN Returned(engine.ticketId, NULL, NULL)
          ELSE /\ engine' = [pc |-> "count", ticketId |-> engine.ticketId,
                             ticket |-> engine.ticket,
                             tracked |-> [k \in eligible |-> technicians[k]],
                             loads |-> [k \in {} |-> 0]]
               /\ UNCHANGED last
    /\ UNCHANGED <<users, technicians, tickets, messages, notifications, now, settings, pending>>

\* Lines 55-63: one CountAsync, for a technician not yet counted.
AssignCount(k) ==
    /\ engine.pc = "count"
    /\ k \in DOMAIN engine.tracked \ DOMAIN engine.loads
    /\ LET loads == [j \in DOMAIN engine.loads \cup {k} |->
                        IF j = k THEN LoadCount(tickets, k) ELSE engine.loads[j]]
       IN engine' = [engine EXCEPT
                        !.loads = loads,
                        !.pc = IF DOMAIN loads = DOMAIN engine.tracked
                               THEN "reread" ELSE "count"]
    /\ UNCHANGED <<users, technicians, tickets, messages, notifications, now, last,
                   settings, pending>>

\* Lines 66-88: select, query the selected technician again and test its
\* UserId.  The row is found by the database; the entity returned is the
\* tracked one.
AssignReread ==
    /\ engine.pc = "reread"
    /\ LET k == LeastLoaded(engine.loads)
       IN IF k \notin DOMAIN technicians
          THEN Returned(engine.ticketId, NULL, NULL)
          ELSE IF engine.tracked[k].UserId = NULL
          THEN Returned(engine.ticketId, NULL, NULL)
          ELSE /\ engine' = [pc |-> "save", ticketId |-> engine.ticketId,
                             ticket |-> engine.ticket,
                             tracked |-> engine.tracked, selected |-> k]
               /\ UNCHANGED last
    /\ UNCHANGED <<users, technicians, tickets, messages, notifications, now, settings, pending>>

\* Lines 91-102: the write and SaveChangesAsync.  The four assignments are
\* made to the tracked entity and the UPDATE sets the columns they modified.
\* When the user it names is gone, the foreign key of AssignedToUserId either
\* rejects the UPDATE (DbUpdateException) or, where it is not enforced, lets
\* it through.
AssignSave ==
    /\ engine.pc = "save"
    /\ LET id == engine.ticketId
           k == engine.selected
           entity == SmartAssigned(engine.ticket, k, engine.tracked, now)
       IN \/ /\ entity.AssignedToUserId \notin DOMAIN users
             /\ Returned(id, NULL, "DbUpdateException")
             /\ UNCHANGED tickets
          \/ /\ tickets' = [tickets EXCEPT
                                ![id] = SaveChanges(@, engine.ticket, entity)]
             /\ Returned(id, k, NULL)
    /\ UNCHANGED <<users, technicians, messages, notifications, now, settings, pending>>

\* A user row is deleted by another connection.  Technician.UserId is set
\* null by the foreign key (OnDelete(DeleteBehavior.SetNull)).  Only a user no
\* ticket refers to is deleted.
RemoveUser(userId) ==
    /\ userId \in DOMAIN users
    /\ \A id \in DOMAIN tickets :
          userId \notin {tickets[id].CreatedByUserId, tickets[id].AssignedToUserId}
    /\ users' = [u \in DOMAIN users \ {userId} |-> users[u]]
    /\ technicians' = [k \in DOMAIN technicians |->
                          IF technicians[k].UserId = userId
                          THEN [technicians[k] EXCEPT !.UserId = NULL]
                          ELSE technicians[k]]
    /\ UNCHANGED <<tickets, messages, notifications, now, last, settings, engine, pending>>

\* ------------------------------- TicketService calls, load and save apart

\* A TicketService call runs on a DbContext of its own.  `pending` holds the
\* call between FirstOrDefaultAsync and SaveChangesAsync: its arguments and
\* `ticket`, the entity as it was materialised.

\* UpdateTicketAsync lines 160-174: the load and the permission rules.
UpdateLoad(id, userId, request) ==
    LET role == RoleOf(userId)
        denied == id \notin TicketIds \/ UpdateAccessDenied(tickets[id], userId, role)
    IN /\ pending = NoCall
       /\ IF denied
          THEN /\ last = Idle
               /\ last' = [op |-> "UpdateTicket", id |-> id, userId |-> userId,
                           role |-> role, request |-> request,
                           before |-> Loaded(id), result |-> None]
               /\ UNCHANGED pending
          ELSE /\ pending' = [pc |-> "update", id |-> id, userId |-> userId,
                              role |-> role, request |-> request,
                              ticket |-> tickets[id]]
               /\ UNCHANGED last
       /\ UNCHANGED <<users, technicians, tickets, messages, notifications, now,
                      settings, engine>>

\* UpdateTicketAsync lines 176-218: the patch is applied to the entity,
\* SaveChangesAsync writes it, and GetTicketAsync maps the tracked entity.
UpdateSave ==
    /\ pending.pc = "update"
    /\ last = Idle
    /\ LET id == pending.id
           entity == UpdatedTicket(pending.ticket, pending.role, pending.request, now)
       IN /\ tickets' = [tickets EXCEPT
                             ![id] = SaveChanges(@, pending.ticket, entity)]
          /\ last' = [op |-> "UpdateTicket", id |-> id, userId |-> pending.userId,
                      role |-> pending.role, request |-> pending.request,
                      before |-> Some(pending.ticket),
                      result |-> GetTicketAsync([tickets EXCEPT ![id] = entity],
                                                id, pending.userId, pending.role)]
    /\ pending' = NoCall
    /\ UNCHANGED <<users, technicians, messages, notifications, now, settings, engine>>

\* AddMessageAsync lines 275-336: the ticket and the author are loaded, the
\* access rules answer null and the status rule throws.
AddLoad(ticketId, authorId, status) ==
    LET missing == ticketId \notin TicketIds \/ authorId \notin DOMAIN users
        role == RoleOf(authorId)
        denied == missing \/ MessageAccessDenied(tickets[ticketId], authorId, role)
        forbidden == ~denied /\ StatusChangeForbidden(role, status)
    IN /\ pending = NoCall
       /\ IF denied \/ forbidden
          THEN /\ last = Idle
               /\ last' = [op |-> "AddMessage", id |-> ticketId, userId |-> authorId,
                           role |-> IF authorId \in DOMAIN users THEN role ELSE NULL,
                           status |-> status, before |-> Loaded(ticketId),
                           thrown |-> IF forbidden THEN "StatusChangeForbidden"
                                      ELSE NULL,
                           result |-> None]
               /\ UNCHANGED pending
          ELSE /\ pending' = [pc |-> "message", id |-> ticketId, userId |-> authorId,
                              role |-> role, status |-> status,
                              ticket |-> tickets[ticketId]]
               /\ UNCHANGED last
       /\ UNCHANGED <<users, technicians, tickets, messages, notifications, now,
                      settings, engine>>

\* AddMessageAsync lines 327-355: the status and the stamp are set on the
\* entity, the message is added, SaveChangesAsync writes both, and the
\* notification is addressed from the entity.
AddSave ==
    /\ pending.pc = "message"
    /\ last = Idle
    /\ LET id == pending.id
           entity == [pending.ticket EXCEPT
                         !.Status = MessageStatus(pending.ticket, pending.role,
                                                  pending.status),
                         !.UpdatedAt = now]
           row == NewMessage(entity, id, pending.userId, pending.status, now)
       IN /\ tickets' = [tickets EXCEPT
                             ![id] = SaveChanges(@, pending.ticket, entity)]
          /\ messages' = Append(messages, row)
          /\ notifications' = Append(notifications,
                                     [UserId |-> NotifyUserId(entity, pending.userId),
                                      TicketId |-> id])
          /\ last' = [op |-> "AddMessage", id |-> id, userId |-> pending.userId,
                      role |-> pending.role, status |-> pending.status,
                      before |-> Some(pending.ticket), thrown |-> NULL,
                      result |-> Some(row)]
    /\ pending' = NoCall
    /\ UNCHANGED <<users, technicians, now, settings, engine>>

\* ------------------------ AssignUnassignedTicketsAsync, call by call

\* `pending` holds the run: the list ToListAsync returned, the position of
\* the foreach in it, assignedCount, and the ticket table the list was read
\* from.

\* Lines 110-125: the query is built and the list is loaded.
BatchLoad(startDate, endDate) ==
    /\ pending = NoCall
    /\ \E order \in Orders(UnassignedTickets(tickets, startDate, endDate)) :
          pending' = [pc |-> "batch", startDate |-> startDate, endDate |-> endDate,
                      order |-> order, next |-> 1, assignedCount |-> 0,
                      before |-> tickets]
    /\ UNCHANGED <<users, technicians, tickets, messages, notifications, now, last,
                   settings, engine>>

\* Variant: the foreach is left without a call.
BatchAssign_StopsAtFirstMiss ==
    /\ pending.pc = "batch"
    /\ pending.next <= Len(pending.order)
    /\ tickets' = tickets
    /\ pending' = [pending EXCEPT !.next = Len(pending.order) + 1]
    /\ UNCHANGED <<users, technicians, messages, notifications, now, last, settings, engine>>

\* Lines 127-134: one turn of the foreach, one AssignTechnicianToTicketAsync
\* call.
BatchAssign ==
    /\ pending.pc = "batch"
    /\ pending.next <= Len(pending.order)
    /\ LET r == AssignTechnicianToTicketAsync(tickets, technicians,
                                              pending.order[pending.next], now)
       IN /\ tickets' = r.tickets
          /\ pending' = [pending EXCEPT
                            !.next = @ + 1,
                            !.assignedCount = IF r.result # NULL THEN @ + 1 ELSE @]
    /\ UNCHANGED <<users, technicians, messages, notifications, now, last, settings, engine>>

\* Line 136: the foreach is over and assignedCount is returned.
BatchReturn ==
    /\ pending.pc = "batch"
    /\ pending.next > Len(pending.order)
    /\ pending' = [pc |-> "returned", result |-> pending.assignedCount,
                   before |-> pending.before]
    /\ UNCHANGED <<users, technicians, tickets, messages, notifications, now, last,
                   settings, engine>>

\* The count reaches the caller.
BatchDeliver ==
    /\ pending.pc = "returned"
    /\ pending' = NoCall
    /\ UNCHANGED <<users, technicians, tickets, messages, notifications, now, last,
                   settings, engine>>

\* ------------------------------------ UserService calls, await by await

\* The unique index on Users.Email: the INSERT or UPDATE that gives the row
\* `id` an address another row holds is refused.
EmailIndexViolated(usrs, id, email) ==
    \E u \in DOMAIN usrs \ {id} : usrs[u].Email = email

\* The answer of a RegisterAsync call taken await by await.
Registered(id, result, thrown) ==
    /\ last = Idle
    /\ last' = [op |-> "Register", request |-> pending.request,
                creatorRole |-> pending.creatorRole, userId |-> id,
                result |-> result, thrown |-> thrown]
    /\ pending' = NoCall

\* RegisterAsync lines 211-236: the role is validated and the address is
\* looked up.
RegisterExists(request, creatorRole) ==
    /\ pending = NoCall
    /\ IF \/ request.Role = NULL
          \/ request.Role \notin Roles
          \/ \E u \in DOMAIN users :
                users[u].Email = ToLowerInvariant(request.Email)
       THEN /\ last = Idle
            /\ last' = [op |-> "Register", request |-> request,
                        creatorRole |-> creatorRole, userId |-> NULL,
                        result |-> None, thrown |-> NULL]
            /\ UNCHANGED pending
       ELSE /\ pending' = [pc |-> "bootstrap", request |-> request,
                           creatorRole |-> creatorRole]
            /\ UNCHANGED last
    /\ UNCHANGED <<users, technicians, tickets, messages, notifications, now,
                   settings, engine>>

\* RegisterAsync lines 239-253: AnyAsync() and the Admin rule.
RegisterBootstrap ==
    /\ pending.pc = "bootstrap"
    /\ IF /\ pending.request.Role = "Admin"
          /\ DOMAIN users # {}
          /\ pending.creatorRole # "Admin"
       THEN Registered(NULL, None, NULL)
       ELSE /\ pending' = [pending EXCEPT !.pc = "insert"]
            /\ UNCHANGED last
    /\ UNCHANGED <<users, technicians, tickets, messages, notifications, now,
                   settings, engine>>

\* RegisterAsync lines 258-283: the user is added and SaveChangesAsync
\* inserts the row, unless the index refuses it.
RegisterSave(id) ==
    /\ pending.pc = "insert"
    /\ id \notin DOMAIN users
    /\ LET row == NewUser(pending.request, now)
       IN IF EmailIndexViolated(users, id, row.Email)
          THEN /\ Registered(NULL, None, "DbUpdateException")
               /\ UNCHANGED users
          ELSE /\ users' = [u \in DOMAIN users \cup {id} |->
                               IF u = id THEN row ELSE users[u]]
               /\ Registered(id, Some(MapToDto(users', id)), NULL)
    /\ UNCHANGED <<technicians, tickets, messages, notifications, now, settings, engine>>

\* The answer of an UpdateProfileAsync call taken await by await.
ProfileUpdated(result, thrown) ==
    /\ last = Idle
    /\ last' = [op |-> "UpdateProfile", userId |-> pending.userId,
                request |-> pending.request, result |-> result, thrown |-> thrown]
    /\ pending' = NoCall

\* UpdateProfileAsync lines 335-341: the user is loaded.
ProfileLoad(userId, request) ==
    /\ pending = NoCall
    /\ IF userId \notin DOMAIN users
       THEN /\ last = Idle
            /\ last' = [op |-> "UpdateProfile", userId |-> userId,
                        request |-> request, result |-> None, thrown |-> NULL]
            /\ UNCHANGED pending
       ELSE /\ pending' = [pc |-> IF IsNullOrWhiteSpace(request.Email)
                                  THEN "profile" ELSE "inuse",
                           userId |-> userId, request |-> request,
                           user |-> users[userId]]
            /\ UNCHANGED last
    /\ UNCHANGED <<users, technicians, tickets, messages, notifications, now,
                   settings, engine>>

\* UpdateProfileAsync lines 343-348: the address is looked up among the
\* other users.
ProfileInUse ==
    /\ pending.pc = "inuse"
    /\ IF \E u \in DOMAIN users :
             /\ u # pending.userId
             /\ users[u].Email = ToLowerInvariant(pending.request.Email)
       THEN ProfileUpdated(None, NULL)
       ELSE /\ pending' = [pending EXCEPT !.pc = "profile"]
            /\ UNCHANGED last
    /\ UNCHANGED <<users, technicians, tickets, messages, notifications, now,
                   settings, engine>>

\* UpdateProfileAsync lines 350-374: the entity is changed and
\* SaveChangesAsync sends the UPDATE of the address when it differs from
\* the loaded one; the UPDATE finds no row when the user was deleted, and
\* the index refuses an address another row holds.
ProfileSave ==
    /\ pending.pc = "profile"
    /\ LET userId == pending.userId
           entity == UpdatedProfile(pending.user, pending.request)
           dto == MapToDto([u \in {userId} |-> entity], userId)
       IN IF entity = pending.user
          THEN /\ ProfileUpdated(Some(dto), NULL)
               /\ UNCHANGED users
          ELSE IF userId \notin DOMAIN users
          THEN /\ ProfileUpdated(None, "DbUpdateConcurrencyException")
               /\ UNCHANGED users
          ELSE IF EmailIndexViolated(users, userId, entity.Email)
          THEN /\ ProfileUpdated(None, "DbUpdateException")
               /\ UNCHANGED users
          ELSE /\ users' = [users EXCEPT
                               ![userId] = SaveChanges(@, pending.user, entity)]
               /\ ProfileUpdated(Some(dto), NULL)
    /\ UNCHANGED <<technicians, tickets, messages, notifications, now, settings, engine>>

\* Requests and responses of the whole service, with status/assignee patches.
Next ==
    \/ now < MaxTime /\ Tick
    \/ Deliver
    \/ Len(tickets) < MaxTickets
         /\ \E u \in ClientIds, r \in CreateRequests : CreateTicket(u, r)
    \/ \E id \in LookupIds, u \in UserIds : GetTicket(id, u)
    \/ \E u \in UserIds, f \in Filters : GetTickets(u, f)
    \/ \E id \in LookupIds, u \in UserIds : GetMessages(id, u)
    \/ \E id \in LookupIds, u \in UserIds, r \in StatusRequests : UpdateTicket(id, u, r)
    \/ \E id \in LookupIds, k \in TechnicianIds \cup {GhostTechnician} : AssignTicket(id, k)
    \/ Len(messages) < MaxMessages
         /\ \E id \in LookupIds, u \in UserIds \cup {GhostUser},
               s \in {NULL} \cup Statuses : AddMessage(id, u, s)
    \/ \E id \in LookupIds : AssignOne(id)
    \/ \E s \in {NoTime} \cup Times, e \in {NoTime} \cup Times : AssignBatch(s, e)

Spec == Init /\ [][Next]_vars

\* Field patches: UpdateTicketAsync with every patch, on tickets that are
\* created and assigned; no messages are written.
NextPatch ==
    \/ now < MaxTime /\ Tick
    \/ Deliver
    \/ Len(tickets) < MaxTickets
         /\ \E u \in ClientIds, r \in CreateRequests : CreateTicket(u, r)
    \/ \E id \in LookupIds, u \in UserIds, r \in UpdateRequests : UpdateTicket(id, u, r)
    \/ \E id \in LookupIds, k \in TechnicianIds : AssignTicket(id, k)
    \/ \E id \in LookupIds : AssignOne(id)

SpecPatch == Init /\ [][NextPatch]_vars

\* A patch that carries a status and nothing else.
StatusPatch(status) ==
    [Description |-> NULL, Priority |-> NULL, Status |-> status,
     AssignedToUserId |-> NULL, DueDate |-> NoTime]

\* Load balancing: tickets are created, assigned by the engine one by one or
\* in a batch, and moved between statuses by the technician they are
\* assigned to, while profiles are activated, deactivated and linked.
AssignLookupIds == 1..MaxAssignTickets

NextAssign ==
    \/ Deliver
    \/ Len(tickets) < MaxAssignTickets
         /\ \E r \in CreateRequests : CreateTicket("c1", r)
    \/ \E id \in AssignLookupIds, u \in TechUserIds, s \in {"Resolved", "InProgress"} :
          UpdateTicket(id, u, StatusPatch(s))
    \/ \E k \in TechnicianIds, b \in BOOLEAN : UpdateTechnicianStatus(k, b)
    \/ \E k \in TechnicianIds \cup {GhostTechnician}, u \in {"u2", "c1", GhostUser} :
          LinkUser(k, u)
    \/ \E id \in AssignLookupIds : AssignOne(id)
    \/ AssignBatch(NoTime, NoTime)

SpecAssign == Init /\ [][NextAssign]_vars

\* Batch runs over a date range: the clock advances between creations, an
\* Admin resolves tickets, profiles are activated and deactivated, and the
\* batch is started through the controller, behind the toggle.
BatchLookupIds == 1..MaxBatchTickets

NextBatch ==
    \/ now < MaxTime /\ Tick
    \/ Deliver
    \/ Len(tickets) < MaxBatchTickets
         /\ \E r \in CreateRequests : CreateTicket("c1", r)
    \/ \E id \in BatchLookupIds : UpdateTicket(id, "a1", StatusPatch("Resolved"))
    \/ \E k \in TechnicianIds, b \in BOOLEAN : UpdateTechnicianStatus(k, b)
    \/ \E b \in BOOLEAN : UpdateSmartAssignmentStatus(b)
    \/ \E id \in BatchLookupIds : AssignOne(id)
    \/ \E s \in {NoTime} \cup Times, e \in {NoTime} \cup Times : RunSmartAssignment(s, e)

SpecBatch == Init /\ [][NextBatch]_vars

\* Load through the statuses: the technician a ticket is assigned to moves it
\* to any of the five statuses while the engine assigns further tickets; k1
\* stays eligible, k3 is activated and deactivated.
NextLoad ==
    \/ Deliver
    \/ Len(tickets) < MaxAssignTickets
         /\ \E r \in CreateRequests : CreateTicket("c1", r)
    \/ \E id \in AssignLookupIds, u \in TechUserIds, s \in Statuses :
          UpdateTicket(id, u, StatusPatch(s))
    \/ \E b \in BOOLEAN : UpdateTechnicianStatus("k3", b)
    \/ \E id \in AssignLookupIds : AssignOne(id)

SpecLoad == Init /\ [][NextLoad]_vars

\* Interleavings: one AssignTechnicianToTicketAsync call advances await by
\* await while tickets are created, profiles are activated, deactivated and
\* linked, and users are deleted.
RaceLookupIds == 1..MaxRaceTickets

NextRace ==
    \/ Deliver
    \/ Len(tickets) < MaxRaceTickets
         /\ \E r \in CreateRequests : CreateTicket("c1", r)
    \/ \E k \in {"k1", "k3"}, b \in BOOLEAN : UpdateTechnicianStatus(k, b)
    \/ \E k \in {"k1", "k2"} : LinkUser(k, "u2")
    \/ \E u \in TechUserIds : RemoveUser(u)
    \/ \E id \in RaceLookupIds : AssignLoadTicket(id)
    \/ AssignScan
    \/ \E k \in TechnicianIds : AssignCount(k)
    \/ AssignReread
    \/ AssignSave

SpecRace == Init /\ [][NextRace]_vars

\* Runs that stop: tickets are created as the clock advances, profiles are
\* activated and deactivated, and batch runs over the whole table either
\* finish or stop after some of their tickets.
NextStop ==
    \/ now < MaxTime /\ Tick
    \/ Deliver
    \/ Len(tickets) < MaxStopTickets
         /\ \E r \in CreateRequests : CreateTicket("c1", r)
    \/ \E k \in {"k1", "k3"}, b \in BOOLEAN : UpdateTechnicianStatus(k, b)
    \/ AssignBatch(NoTime, NoTime)
    \/ AssignBatchStopped(NoTime, NoTime)

SpecStop == Init /\ [][NextStop]_vars

\* A thread of messages: messages are added to a ticket, with the sink
\* working or failing, while the ticket is updated and assigned, by hand, by
\* the engine and by a batch.
ThreadLookupIds == 1..MaxTickets

NextThread ==
    \/ Deliver
    \/ Len(tickets) < MaxTickets
         /\ \E r \in CreateRequests : CreateTicket("c1", r)
    \/ \E id \in ThreadLookupIds, u \in {"c1", "a1"}, s \in {"Closed", "Resolved"} :
          UpdateTicket(id, u, StatusPatch(s))
    \/ \E id \in ThreadLookupIds, k \in {"k1", "k2"} : AssignTicket(id, k)
    \/ \E id \in ThreadLookupIds : AssignOne(id)
    \/ AssignBatch(NoTime, NoTime)
    \/ Len(messages) < MaxThreadMessages
         /\ \E id \in ThreadLookupIds, u \in {"c1", "u1", "a1"},
               s \in {NULL, "InProgress", "Resolved"} :
               \/ AddMessage(id, u, s)
               \/ AddMessageSinkFails(id, u, s)

SpecThread == Init /\ [][NextThread]_vars

\* Profiles: TechniciansController links profiles to users, updates them and
\* activates and deactivates them.
NextLink ==
    \/ Deliver
    \/ \E k \in TechnicianIds \cup {GhostTechnician},
          u \in TechUserIds \cup {"c1", GhostUser} : LinkUser(k, u)
    \/ \E k \in TechnicianIds \cup {GhostTechnician}, b \in BOOLEAN :
          UpdateTechnician(k, b)
    \/ \E k \in TechnicianIds, b \in BOOLEAN : UpdateTechnicianStatus(k, b)

SpecLink == Init /\ [][NextLink]_vars

\* Profiles are created and linked: TechniciansController.CreateTechnician
\* and LinkUser, for the seeded profiles, a created one and a missing one.
NextProfile ==
    \/ Deliver
    \/ \E b \in BOOLEAN : CreateTechnician(NewTechnicianId, b)
    \/ \E k \in TechnicianIds \cup {NewTechnicianId, GhostTechnician},
          u \in TechUserIds \cup {"c1", GhostUser} : LinkUser(k, u)

SpecProfile == Init /\ [][NextProfile]_vars

\* Requests of RegisterAsync: an address a seeded user has, typed with a
\* capital; a new address; a new address with "admin" in it; with no role,
\* a value that is no UserRole, and the three roles.
RegisterRequests ==
    [Email : {<<"C", "1", "@", "t">>, <<"N", "1", "@", "T">>,
              <<"A", "d", "m", "i", "n", "@", "x">>},
     Role : {NULL, "Owner"} \cup Roles,
     Password : {FirstPassword}]

\* Requests of UpdateProfileAsync: no address, a blank one, the address of
\* the seeded user c2 and a new one.
ProfileRequests ==
    [Email : {<<>>, <<" ">>, <<"C", "2", "@", "T">>, <<"N", "9", "@", "t">>}]

\* Accounts: AuthController registers users, updates profiles and changes
\* passwords, AdminMaintenanceController deletes users, and
\* TechniciansController links profiles to users.
NextAccount ==
    \/ Deliver
    \/ \E r \in RegisterRequests, c \in {"Client", "Admin"} : Register("n1", r, c)
    \/ \E u \in {"u1", "n1", GhostUser}, r \in ProfileRequests : UpdateProfile(u, r)
    \/ \E u \in {"n1", GhostUser}, p \in {FirstPassword, OtherPassword},
          q \in {FirstPassword, OtherPassword, ShortPassword, LettersPassword},
          c \in {FirstPassword, OtherPassword, ShortPassword, LettersPassword} :
             /\ c \in {q, FirstPassword}
             /\ ChangePassword(u, p, q, c)
    \/ \E cutoffUtc \in {NoTime, MaxTime} : CleanupInvalidAdminUsers(cutoffUtc)
    \/ \E k \in {"k1", "k2", GhostTechnician},
          u \in {"u1", "n1", "c1", GhostUser} : LinkUser(k, u)

SpecAccount == Init /\ [][NextAccount]_vars

\* Requests of a Client caller for a Client or an Admin account.
SignupRequests ==
    {r \in RegisterRequests : r.Role \in {"Client", "Admin"}}

\* Sign-up: one RegisterAsync or UpdateProfileAsync call is taken await by
\* await while other calls of both run from start to end, and the cleanup
\* deletes Client users.
NextSignup ==
    \/ Deliver
    \/ \E r \in SignupRequests : RegisterExists(r, "Client")
    \/ RegisterBootstrap
    \/ \E id \in NewUserIds : RegisterSave(id)
    \/ \E id \in NewUserIds, r \in SignupRequests : Register(id, r, "Client")
    \/ \E u \in {"c1", "n1"}, r \in ProfileRequests : ProfileLoad(u, r)
    \/ ProfileInUse
    \/ ProfileSave
    \/ \E u \in {"c2", "n1"}, r \in ProfileRequests : UpdateProfile(u, r)
    \/ CleanupInvalidAdminUsers(NoTime)

SpecSignup == Init /\ [][NextSignup]_vars

\* A batch run, call by call: while it runs, tickets are created, the
\* creator closes tickets and k3 is activated and deactivated; tickets are
\* assigned one by one only between runs.  k1 stays active and linked.
RunLookupIds == 1..MaxStopTickets

NextRun ==
    \/ Deliver
    \/ Len(tickets) < MaxStopTickets
         /\ \E r \in CreateRequests : CreateTicket("c1", r)
    \/ \E id \in RunLookupIds : UpdateTicket(id, "c1", StatusPatch("Closed"))
    \/ \E b \in BOOLEAN : UpdateTechnicianStatus("k3", b)
    \/ pending = NoCall /\ \E id \in RunLookupIds : AssignOne(id)
    \/ BatchLoad(NoTime, NoTime)
    \/ BatchAssign
    \/ BatchReturn
    \/ BatchDeliver

\* The foreach awaits each call and each call is a bounded number of
\* database round trips: a run that has started takes its next turn and
\* returns.
SpecRun ==
    Init /\ [][NextRun]_vars /\ WF_vars(BatchAssign) /\ WF_vars(BatchReturn)

\* A patch that carries an assignee and nothing else.
AssigneePatch(userId) ==
    [Description |-> NULL, Priority |-> NULL, Status |-> NULL,
     AssignedToUserId |-> userId, DueDate |-> NoTime]

\* Tickets touched before the engine sees them: the Admin names an assigned
\* user on tickets, their creator closes them or sets them waiting, k1 and k3
\* are activated and deactivated, and the engine assigns one by one and in a
\* batch.
PickupLookupIds == 1..MaxBatchTickets

NextPickup ==
    \/ Deliver
    \/ Len(tickets) < MaxBatchTickets
         /\ \E r \in CreateRequests : CreateTicket("c1", r)
    \/ \E id \in PickupLookupIds, u \in TechUserIds :
          UpdateTicket(id, "a1", AssigneePatch(u))
    \/ \E id \in PickupLookupIds, s \in {"WaitingForClient", "Closed"} :
          UpdateTicket(id, "c1", StatusPatch(s))
    \/ \E k \in {"k1", "k3"}, b \in BOOLEAN : UpdateTechnicianStatus(k, b)
    \/ \E id \in PickupLookupIds : AssignOne(id)
    \/ AssignBatch(NoTime, NoTime)

SpecPickup == Init /\ [][NextPickup]_vars

\* One row, many writers: an AssignTechnicianToTicketAsync call advances await
\* by await while UpdateTicketAsync and AddMessageAsync load and save the same
\* ticket, another AssignTechnicianToTicketAsync call runs between two of its
\* awaits, and the ticket is read.  The requests are a user and a patch.
WriteLookupIds == 1..MaxWriteTickets

WriteRequests ==
    {<<"c1", StatusPatch("Closed")>>, <<"u1", StatusPatch("Resolved")>>,
     <<"a1", AssigneePatch("u1")>>, <<"a1", AssigneePatch("u2")>>}

NextWrite ==
    \/ Deliver
    \/ Len(tickets) < MaxWriteTickets
         /\ \E r \in CreateRequests : CreateTicket("c1", r)
    \/ \E b \in BOOLEAN : UpdateTechnicianStatus("k3", b)
    \/ \E id \in WriteLookupIds : AssignLoadTicket(id)
    \/ AssignScan
    \/ \E k \in TechnicianIds : AssignCount(k)
    \/ AssignReread
    \/ AssignSave
    \/ \E id \in WriteLookupIds : AssignOne(id)
    \/ \E id \in WriteLookupIds, w \in WriteRequests : UpdateLoad(id, w[1], w[2])
    \/ UpdateSave
    \/ Len(messages) < MaxMessages
         /\ \E id \in WriteLookupIds, u \in {"c1", "u1"} : AddLoad(id, u, "InProgress")
    \/ AddSave
    \/ \E id \in WriteLookupIds : GetTicket(id, "a1")

SpecWrite == Init /\ [][NextWrite]_vars

\* ------------------------------------------------------------------ claims

\* Access scope as the permission rules state it.
InScopeOf(t, userId, role) ==
    \/ role = "Admin"
    \/ role = "Client" /\ t.CreatedByUserId = userId
    \/ role = "Technician" /\ (t.TechnicianId = userId \/ t.AssignedToUserId = userId)

\* The step just taken appended exactly one message, for ticket id by userId.
OneMessageAppended(id, userId) ==
    /\ Len(messages') = Len(messages) + 1
    /\ SubSeq(messages', 1, Len(messages)) = messages
    /\ messages'[Len(messages')].TicketId = id
    /\ messages'[Len(messages')].AuthorUserId = userId

\* The step just taken changed ticket id in Status and UpdatedAt at most.
OnlyStatusAndStamp(id) ==
    /\ DOMAIN tickets' = DOMAIN tickets
    /\ \A j \in DOMAIN tickets : j # id => tickets'[j] = tickets[j]
    /\ tickets'[id] = [tickets[id] EXCEPT !.Status = tickets'[id].Status,
                                          !.UpdatedAt = tickets'[id].UpdatedAt]

\* C1: in every reachable state every ticket has TechnicianId null exactly
\* when AssignedToUserId is null.
C1_PairedAssignment ==
    \A id \in DOMAIN tickets :
        (tickets[id].TechnicianId = NULL) <=> (tickets[id].AssignedToUserId = NULL)

\* C2: AddMessage by the Client who created the ticket, asking for Resolved or
\* Closed, throws StatusChangeForbidden whatever the ticket's status and
\* changes no ticket, appends no message and queues no notification.
C2_ClientCloseForbidden ==
    [][(/\ last'.op = "AddMessage"
        /\ last'.id \in TicketIds
        /\ last'.role = "Client"
        /\ tickets[last'.id].CreatedByUserId = last'.userId
        /\ last'.status \in {"Resolved", "Closed"})
       => (/\ last'.thrown = "StatusChangeForbidden"
           /\ last'.result = None
           /\ tickets' = tickets
           /\ messages' = messages
           /\ notifications' = notifications)]_vars

\* C2 witness: the creator's closing message was refused on a ticket already
\* Resolved whose UpdatedAt is older than the clock.
C2_Witness ==
    /\ last.op = "AddMessage"
    /\ last.role = "Client"
    /\ last.status = "Closed"
    /\ last.thrown = "StatusChangeForbidden"
    /\ tickets[last.id].CreatedByUserId = last.userId
    /\ tickets[last.id].Status = "Resolved"
    /\ tickets[last.id].UpdatedAt < now
    /\ messages = <<>>

\* C3: AddMessage with status InProgress on a ticket that is Resolved or
\* Closed, by its Client creator, an in-scope Technician or an Admin,
\* succeeds, appends the message and leaves the ticket InProgress.
C3_ReopenAllowed ==
    [][(/\ last'.op = "AddMessage"
        /\ last'.id \in TicketIds
        /\ last'.role \in Roles
        /\ InScopeOf(tickets[last'.id], last'.userId, last'.role)
        /\ last'.status = "InProgress"
        /\ tickets[last'.id].Status \in {"Resolved", "Closed"})
       => (/\ last'.thrown = NULL
           /\ last'.result # None
           /\ OneMessageAppended(last'.id, last'.userId)
           /\ OnlyStatusAndStamp(last'.id)
           /\ tickets'[last'.id].Status = "InProgress")]_vars

\* C3 witness: the Client creator reopened a Closed ticket.
C3_Witness ==
    /\ last.op = "AddMessage"
    /\ last.role = "Client"
    /\ last.status = "InProgress"
    /\ last.result # None
    /\ last.before # None
    /\ last.before[1].Status = "Closed"
    /\ last.before[1].CreatedByUserId = last.userId
    /\ tickets[last.id].Status = "InProgress"

\* C4: for the Client creator, AddMessage with WaitingForClient sets that
\* status; with New, or with InProgress on a ticket neither Resolved nor
\* Closed, it raises nothing, appends the message and keeps the status.
C4_ClientOtherStatus ==
    [][(/\ last'.op = "AddMessage"
        /\ last'.id \in TicketIds
        /\ last'.role = "Client"
        /\ tickets[last'.id].CreatedByUserId = last'.userId
        /\ last'.status \in {"WaitingForClient", "New", "InProgress"}
        /\ ~(last'.status = "InProgress"
             /\ tickets[last'.id].Status \in {"Resolved", "Closed"}))
       => (/\ last'.thrown = NULL
           /\ last'.result # None
           /\ OneMessageAppended(last'.id, last'.userId)
           /\ OnlyStatusAndStamp(last'.id)
           /\ tickets'[last'.id].Status =
                 IF last'.status = "WaitingForClient" THEN "WaitingForClient"
                 ELSE tickets[last'.id].Status)]_vars

\* C4 witness: the creator asked for New on a WaitingForClient ticket; the
\* message was stored and the ticket is still WaitingForClient.
C4_Witness ==
    /\ last.op = "AddMessage"
    /\ last.role = "Client"
    /\ last.status = "New"
    /\ last.result # None
    /\ last.before # None
    /\ last.before[1].Status = "WaitingForClient"
    /\ tickets[last.id].Status = "WaitingForClient"
    /\ Len(messages) = 1

\* The step just taken is an UpdateTicket that found its ticket in scope.
UpdateInScope ==
    /\ last'.op = "UpdateTicket"
    /\ last'.id \in TicketIds
    /\ InScopeOf(tickets[last'.id], last'.userId, last'.role)

\* C5: UpdateTicket by the Client creator writes a requested status only when
\* it is WaitingForClient or Closed; New, InProgress and Resolved are dropped
\* without error, and Description and Priority of the same patch are written.
C5_ClientUpdateStatus ==
    [][(UpdateInScope /\ last'.role = "Client")
       => LET id == last'.id
              r == last'.request
          IN /\ last'.result # None
             /\ tickets'[id].Status =
                   IF r.Status \in {"WaitingForClient", "Closed"}
                   THEN r.Status ELSE tickets[id].Status
             /\ tickets'[id].Description =
                   IF r.Description # NULL THEN r.Description
                   ELSE tickets[id].Description
             /\ tickets'[id].Priority =
                   IF r.Priority # NULL THEN r.Priority
                   ELSE tickets[id].Priority]_vars

\* C5 witness: the creator's patch asked for Resolved with a new description
\* and priority; the ticket kept InProgress and took the two fields.
C5_Witness ==
    /\ last.op = "UpdateTicket"
    /\ last.role = "Client"
    /\ last.result # None
    /\ last.request.Status = "Resolved"
    /\ last.request.Description = "d1"
    /\ last.request.Priority = "High"
    /\ last.before[1].Status = "InProgress"
    /\ last.before[1].Description = "d0"
    /\ last.before[1].Priority = "Medium"
    /\ tickets[last.id].Status = "InProgress"
    /\ tickets[last.id].Description = "d1"
    /\ tickets[last.id].Priority = "High"

\* C6: for a Technician in scope and for an Admin, a status requested through
\* UpdateTicket or AddMessage is accepted and is the ticket's status
\* afterwards, from every prior status.
C6_StaffAnyStatus ==
    [][(/\ last'.op \in {"UpdateTicket", "AddMessage"}
        /\ last'.id \in TicketIds
        /\ last'.role \in {"Technician", "Admin"}
        /\ InScopeOf(tickets[last'.id], last'.userId, last'.role)
        /\ (IF last'.op = "UpdateTicket" THEN last'.request.Status
            ELSE last'.status) # NULL)
       => (/\ last'.result # None
           /\ tickets'[last'.id].Status =
                 (IF last'.op = "UpdateTicket" THEN last'.request.Status
                  ELSE last'.status))]_vars

\* C6 witness: a Technician's UpdateTicket moved a Closed ticket back to New.
C6_Witness ==
    /\ last.op = "UpdateTicket"
    /\ last.role = "Technician"
    /\ last.result # None
    /\ last.request.Status = "New"
    /\ last.before[1].Status = "Closed"
    /\ tickets[last.id].Status = "New"

\* C7: UpdateTicket by a Technician in scope is accepted, leaves Description
\* and Priority as they were whatever the patch carries, and writes the
\* patch's status.
C7_TechnicianKeepsFields ==
    [][(UpdateInScope /\ last'.role = "Technician")
       => LET id == last'.id
              r == last'.request
          IN /\ last'.result # None
             /\ tickets'[id].Description = tickets[id].Description
             /\ tickets'[id].Priority = tickets[id].Priority
             /\ tickets'[id].Status =
                   IF r.Status # NULL THEN r.Status ELSE tickets[id].Status]_vars

\* C7 witness: a Technician's patch carried a description, a priority and
\* Resolved; only the status was written.
C7_Witness ==
    /\ last.op = "UpdateTicket"
    /\ last.role = "Technician"
    /\ last.result # None
    /\ last.request.Description = "d1"
    /\ last.request.Priority = "High"
    /\ last.request.Status = "Resolved"
    /\ tickets[last.id].Description = "d0"
    /\ tickets[last.id].Priority = "Medium"
    /\ tickets[last.id].Status = "Resolved"

\* C8: an UpdateTicket by a Client or a Technician leaves AssignedToUserId,
\* TechnicianId and DueDate of every ticket unchanged, whatever the patch
\* carries: an UpdateTicket that changes AssignedToUserId or DueDate is an
\* Admin's.
C8_AssignmentAdminOnly ==
    [][(last'.op = "UpdateTicket" /\ last'.role \in {"Client", "Technician"})
       => /\ DOMAIN tickets' = DOMAIN tickets
          /\ \A id \in DOMAIN tickets :
                /\ tickets'[id].AssignedToUserId = tickets[id].AssignedToUserId
                /\ tickets'[id].TechnicianId = tickets[id].TechnicianId
                /\ tickets'[id].DueDate = tickets[id].DueDate]_vars

\* C8 witness: the creator's accepted patch carried an assignee and a due
\* date; the ticket is still unassigned and has no due date.
C8_Witness ==
    /\ last.op = "UpdateTicket"
    /\ last.role = "Client"
    /\ last.result # None
    /\ last.request.AssignedToUserId = "u1"
    /\ last.request.DueDate # NoTime
    /\ tickets[last.id].AssignedToUserId = NULL
    /\ tickets[last.id].TechnicianId = NULL
    /\ tickets[last.id].DueDate = NoTime

\* C9: UpdateTicket or AddMessage on a ticket outside the actor's scope
\* answers null, as for an id that names no ticket, raises nothing and
\* changes no ticket, message or notification.
C9_OutOfScopeIsNotFound ==
    [][(/\ last'.op \in {"UpdateTicket", "AddMessage"}
        /\ last'.role \in Roles
        /\ \/ last'.id \notin TicketIds
           \/ ~InScopeOf(tickets[last'.id], last'.userId, last'.role))
       => (/\ last'.result = None
           /\ last'.op = "AddMessage" => last'.thrown = NULL
           /\ tickets' = tickets
           /\ messages' = messages
           /\ notifications' = notifications)]_vars

\* C9 witness: a Technician's UpdateTicket on an existing ticket assigned to
\* someone else was answered null; the ticket's UpdatedAt is older than the
\* clock.
C9_Witness ==
    /\ last.op = "UpdateTicket"
    /\ last.role = "Technician"
    /\ last.id \in TicketIds
    /\ last.request.Status # NULL
    /\ last.result = None
    /\ tickets[last.id].AssignedToUserId \notin {NULL, last.userId}
    /\ tickets[last.id].UpdatedAt < now

\* C10: a list for a Client holds only tickets that Client created, a list
\* for a Technician only tickets whose TechnicianId or AssignedToUserId is
\* the actor, GetTicket and GetMessages return nothing for a ticket out of
\* scope, and an Admin's unfiltered list holds every ticket.
C10_ReadsRespectScope ==
    /\ last.op = "GetTickets" =>
          /\ \A id \in last.result :
                id \in TicketIds /\ InScopeOf(tickets[id], last.userId, last.role)
          /\ (last.role = "Admin" /\ last.filter \in [DOMAIN last.filter -> {NULL}])
                => last.result = TicketIds
    /\ last.op = "GetTicket" =>
          IF last.id \in TicketIds
             /\ InScopeOf(tickets[last.id], last.userId, last.role)
          THEN last.result # None /\ last.result[1].Id = last.id
          ELSE last.result = None
    /\ last.op = "GetMessages" =>
          IF last.id \in TicketIds
             /\ InScopeOf(tickets[last.id], last.userId, last.role)
          THEN last.result = {i \in DOMAIN messages : messages[i].TicketId = last.id}
          ELSE last.result = {}

\* C10 witness: a Technician's unfiltered list came back empty although a
\* ticket exists, assigned to another technician's user.
C10_Witness ==
    /\ last.op = "GetTickets"
    /\ last.role = "Technician"
    /\ last.filter \in [DOMAIN last.filter -> {NULL}]
    /\ last.result = {}
    /\ \E id \in TicketIds : tickets[id].AssignedToUserId \notin {NULL, last.userId}

\* ------------------------------------------------ claims: the engine

\* The technicians that are active and linked in the current store.
ActiveAndLinked ==
    {k \in DOMAIN technicians :
        technicians[k].IsActive /\ technicians[k].UserId # NULL}

\* C11: CreateTicket appends one ticket with status New, TechnicianId null and
\* AssignedToUserId null, and answers it as such, with the toggle on or off
\* and with or without eligible technicians; every other ticket is unchanged.
C11_CreateUnassigned ==
    [][last'.op = "CreateTicket"
       => LET n == Len(tickets')
          IN /\ n = Len(tickets) + 1
             /\ SubSeq(tickets', 1, Len(tickets)) = tickets
             /\ tickets'[n].Status = "New"
             /\ tickets'[n].TechnicianId = NULL
             /\ tickets'[n].AssignedToUserId = NULL
             /\ last'.result # None
             /\ last'.result[1].Id = n
             /\ last'.result[1].Status = "New"
             /\ last'.result[1].AssignedToUserId = NULL
             /\ last'.result[1].AssignedToName = NULL]_vars

\* C11 witness: a second ticket was created unassigned while the toggle is on,
\* a technician is eligible and the first ticket is assigned.
C11_Witness ==
    /\ last.op = "CreateTicket"
    /\ settings.AutoAssignEnabled
    /\ ActiveAndLinked # {}
    /\ Len(tickets) = 2
    /\ tickets[1].TechnicianId # NULL
    /\ tickets[2].TechnicianId = NULL
    /\ tickets[2].Status = "New"

\* C12: AssignOne on a ticket as CreateTicket left it, while some technician is
\* active and linked, returns such a technician T and leaves the ticket
\* InProgress with TechnicianId = T and AssignedToUserId = T's UserId.
C12_CreateThenAssign ==
    [][(/\ last'.op = "AssignOne"
        /\ last'.id \in TicketIds
        /\ tickets[last'.id].Status = "New"
        /\ tickets[last'.id].TechnicianId = NULL
        /\ tickets[last'.id].AssignedToUserId = NULL
        /\ tickets[last'.id].UpdatedAt = NoTime
        /\ ActiveAndLinked # {})
       => LET T == last'.result
              t == tickets'[last'.id]
          IN /\ T \in ActiveAndLinked
             /\ t.Status = "InProgress"
             /\ t.TechnicianId = T
             /\ t.AssignedToUserId = technicians[T].UserId
             /\ t = [tickets[last'.id] EXCEPT !.Status = t.Status,
                                               !.TechnicianId = t.TechnicianId,
                                               !.AssignedToUserId = t.AssignedToUserId,
                                               !.UpdatedAt = t.UpdatedAt]]_vars

\* C12 witness: a fresh ticket went to k2, linked to u2 after the store was set
\* up, and carries k2 and u2.
C12_Witness ==
    /\ last.op = "AssignOne"
    /\ last.result = "k2"
    /\ last.before # None
    /\ last.before[1].Status = "New"
    /\ last.before[1].UpdatedAt = NoTime
    /\ tickets[last.id].Status = "InProgress"
    /\ tickets[last.id].TechnicianId = "k2"
    /\ tickets[last.id].AssignedToUserId = "u2"

\* C13: every TechnicianId that AssignOne or AssignBatch writes names a
\* technician that is active and linked when the call is made, and the ticket
\* gets that technician's UserId.
C13_OnlyEligibleSelected ==
    [][last'.op \in {"AssignOne", "AssignBatch"}
       => \A id \in DOMAIN tickets :
             tickets'[id].TechnicianId # tickets[id].TechnicianId
             => /\ tickets'[id].TechnicianId \in ActiveAndLinked
                /\ tickets'[id].AssignedToUserId =
                      technicians[tickets'[id].TechnicianId].UserId]_vars

\* C13 witness: after k1 was deactivated and k3 activated, with k2 active but
\* never linked, a ticket went to k3.
C13_Witness ==
    /\ last.op = "AssignOne"
    /\ last.result = "k3"
    /\ ~technicians["k1"].IsActive
    /\ technicians["k2"].IsActive
    /\ technicians["k2"].UserId = NULL
    /\ tickets[last.id].TechnicianId = "k3"

\* C14: the technician AssignOne returns is active and linked, no active and
\* linked technician has a smaller load, and none of equal load has a lower id.
C14_LeastLoadedLowestId ==
    [][(last'.op = "AssignOne" /\ last'.result # NULL)
       => LET T == last'.result
          IN /\ T \in ActiveAndLinked
             /\ \A o \in ActiveAndLinked :
                   /\ LoadCount(tickets, T) <= LoadCount(tickets, o)
                   /\ LoadCount(tickets, T) = LoadCount(tickets, o)
                         => Rank(T) <= Rank(o)]_vars

\* C14 witness: with k1 at load 2, k2 at load 0 and k3 at load 0 but inactive,
\* the ticket went to k2, whose load is now 1.
C14_Witness ==
    /\ last.op = "AssignOne"
    /\ last.result = "k2"
    /\ LoadCount(tickets, "k1") = 2
    /\ LoadCount(tickets, "k2") = 1
    /\ LoadCount(tickets, "k3") = 0
    /\ technicians["k1"].IsActive
    /\ technicians["k3"].UserId # NULL
    /\ ~technicians["k3"].IsActive

\* The tickets of technician k that are not WaitingForClient, Resolved or
\* Closed.
OpenTicketsOf(tk, k) ==
    {id \in DOMAIN tk :
        /\ tk[id].TechnicianId = k
        /\ tk[id].Status \notin {"WaitingForClient", "Resolved", "Closed"}}

\* C15: the technician AssignOne returns has the fewest tickets in New or
\* InProgress among the active and linked ones (lowest id on a tie), tickets
\* in the other three statuses not counting; an UpdateTicket that moves a
\* technician's ticket out of New/InProgress lowers that technician's load by
\* one, and one that moves it back raises it by one.
C15_LoadIsOpenTickets ==
    [][/\ (last'.op = "AssignOne" /\ last'.result # NULL)
          => LET T == last'.result
                 n(k) == Cardinality(OpenTicketsOf(tickets, k))
             IN \A o \in ActiveAndLinked :
                   /\ n(T) <= n(o)
                   /\ n(T) = n(o) => Rank(T) <= Rank(o)
       /\ (last'.op = "UpdateTicket" /\ last'.id \in TicketIds
           /\ tickets[last'.id].TechnicianId # NULL)
          => LET k == tickets[last'.id].TechnicianId
                 open(t) == t.Status \in {"New", "InProgress"}
                 was == open(tickets[last'.id])
                 is == open(tickets'[last'.id])
             IN LoadCount(tickets', k) =
                   LoadCount(tickets, k) + (IF is THEN 1 ELSE 0)
                                         - (IF was THEN 1 ELSE 0)]_vars

\* C15 witness: k1 holds a ticket in WaitingForClient and k3, active, one in
\* InProgress; the next ticket went to k1.
C15_Witness ==
    /\ last.op = "AssignOne"
    /\ last.result = "k1"
    /\ technicians["k3"].IsActive
    /\ \E i, j \in TicketIds :
          /\ tickets[i].TechnicianId = "k1"
          /\ tickets[i].Status = "WaitingForClient"
          /\ tickets[j].TechnicianId = "k3"
          /\ tickets[j].Status = "InProgress"
          /\ last.id \notin {i, j}
    /\ tickets[last.id].TechnicianId = "k1"

\* C16: while no technician is active and linked, AssignOne returns no
\* technician and leaves every ticket as it was.
C16_NoEligibleNoAssignment ==
    [][(last'.op = "AssignOne" /\ ActiveAndLinked = {})
       => (last'.result = NULL /\ tickets' = tickets)]_vars

\* C16 witness: AssignOne on an unassigned ticket resolved at an earlier time
\* returned nothing while k1 and k3 are inactive and k2 is active and
\* unlinked; the ticket is still unassigned.
C16_Witness ==
    /\ last.op = "AssignOne"
    /\ last.result = NULL
    /\ last.id \in TicketIds
    /\ ~technicians["k1"].IsActive
    /\ ~technicians["k3"].IsActive
    /\ technicians["k2"].IsActive
    /\ technicians["k2"].UserId = NULL
    /\ tickets[last.id].TechnicianId = NULL
    /\ tickets[last.id].AssignedToUserId = NULL
    /\ tickets[last.id].Status = "Resolved"
    /\ tickets[last.id].UpdatedAt < now

\* C17: AssignOne on a ticket whose TechnicianId is set returns no technician
\* and changes no ticket; AssignBatch leaves every ticket whose TechnicianId
\* was set when it started as it was.
C17_NeverReassigns ==
    [][/\ (last'.op = "AssignOne" /\ last'.id \in TicketIds
           /\ tickets[last'.id].TechnicianId # NULL)
          => (last'.result = NULL /\ tickets' = tickets)
       /\ last'.op = "AssignBatch"
          => \A id \in DOMAIN tickets :
                tickets[id].TechnicianId # NULL => tickets'[id] = tickets[id]]_vars

\* C17 witness: AssignOne on a ticket of k1, resolved at an earlier time,
\* returned nothing although k1 is now inactive and k3 is eligible.
C17_Witness ==
    /\ last.op = "AssignOne"
    /\ last.result = NULL
    /\ last.id \in TicketIds
    /\ tickets[last.id].TechnicianId = "k1"
    /\ tickets[last.id].AssignedToUserId = "u1"
    /\ tickets[last.id].Status = "Resolved"
    /\ tickets[last.id].UpdatedAt < now
    /\ ~technicians["k1"].IsActive
    /\ "k3" \in ActiveAndLinked

\* C18: an AssignBatch run started in the state another AssignBatch run with
\* the same range has just left, in whatever order it takes the rows, changes
\* no ticket the first run assigned, counts at most the tickets still
\* unassigned, and counts 0 and changes nothing when a technician is active
\* and linked.
C18_BatchIdempotent ==
    [][last'.op = "AssignBatch"
       => \A order \in Orders(UnassignedTickets(tickets', last'.startDate,
                                                last'.endDate)) :
             LET second == AssignEach(tickets', technicians', order, now', 0)
             IN /\ \A id \in DOMAIN tickets :
                      (tickets[id].TechnicianId = NULL
                       /\ tickets'[id].TechnicianId # NULL)
                      => second.tickets[id] = tickets'[id]
                /\ second.result <=
                      Cardinality({id \in DOMAIN tickets' :
                                      tickets'[id].TechnicianId = NULL})
                /\ ActiveAndLinked # {}
                      => (second.result = 0 /\ second.tickets = tickets')]_vars

\* C18 witness: a batch over the whole table assigned two tickets.
C18_Witness ==
    /\ last.op = "AssignBatch"
    /\ last.startDate = NoTime
    /\ last.endDate = NoTime
    /\ last.result = 2
    /\ ActiveAndLinked # {}
    /\ \A id \in TicketIds : tickets[id].TechnicianId # NULL

\* C19: AssignBatch(start, end) changes only tickets that were unassigned and
\* created within [start, end], both ends included and each optional; with a
\* technician active and linked it assigns every one of them, otherwise none;
\* its count is the number of tickets that went from unassigned to assigned.
C19_BatchRange ==
    [][last'.op = "AssignBatch"
       => LET s == last'.startDate
              e == last'.endDate
              inRange(id) == /\ tickets[id].TechnicianId = NULL
                             /\ s = NoTime \/ tickets[id].CreatedAt >= s
                             /\ e = NoTime \/ tickets[id].CreatedAt <= e
          IN /\ DOMAIN tickets' = DOMAIN tickets
             /\ \A id \in DOMAIN tickets :
                   IF inRange(id) /\ ActiveAndLinked # {}
                   THEN tickets'[id].TechnicianId \in ActiveAndLinked
                   ELSE tickets'[id] = tickets[id]
             /\ last'.result =
                   Cardinality({id \in DOMAIN tickets :
                                   /\ tickets[id].TechnicianId = NULL
                                   /\ tickets'[id].TechnicianId # NULL})]_vars

\* C19 witness: the batch over [1, 1] assigned the ticket created at 1 and
\* left the unassigned ticket created at 0 alone.
C19_Witness ==
    /\ last.op = "AssignBatch"
    /\ last.startDate = 1
    /\ last.endDate = 1
    /\ last.result = 1
    /\ Len(tickets) = 2
    /\ tickets[1].CreatedAt = 0
    /\ tickets[1].TechnicianId = NULL
    /\ tickets[2].CreatedAt = 1
    /\ tickets[2].TechnicianId # NULL

\* C20: when the call of AssignTechnicianToTicketAsync returns and the
\* technician it selected has a null UserId in the store by then (the linked
\* user was deleted after the eligibility query), it returns no technician,
\* raises nothing and leaves every ticket as it was; and no step of the call
\* saves a ticket with TechnicianId set and AssignedToUserId null.
C20_RaceLostLinkage ==
    [][/\ (engine.pc \in {"reread", "save"} /\ engine' = NoCall)
          => LET k == IF engine.pc = "save" THEN engine.selected
                      ELSE LeastLoaded(engine.loads)
             IN technicians[k].UserId = NULL
                => /\ last'.result = NULL
                   /\ last'.thrown = NULL
                   /\ tickets' = tickets
       /\ engine.pc # "none"
          => \A id \in DOMAIN tickets :
                tickets'[id] # tickets[id]
                => ~(tickets'[id].TechnicianId # NULL
                     /\ tickets'[id].AssignedToUserId = NULL)]_vars

\* C21: the write of AssignTechnicianToTicketAsync is one persisted step that
\* makes the selected technician, that technician's user and the status
\* InProgress visible together, whatever UpdateTicketAsync, AddMessageAsync,
\* the reads or another AssignTechnicianToTicketAsync call do meanwhile; no
\* stored ticket and no response shows a technician without an assigned user.
C21_AtomicAssignmentWrite ==
    [][/\ (engine.pc = "save" /\ engine' = NoCall /\ last'.result # NULL) =>
            LET t == tickets'[engine.ticketId]
            IN /\ t.TechnicianId = engine.selected
               /\ t.AssignedToUserId = engine.tracked[engine.selected].UserId
               /\ t.Status = "InProgress"
       /\ \A id \in DOMAIN tickets' :
              tickets'[id].TechnicianId # NULL => tickets'[id].AssignedToUserId # NULL
       /\ (last'.op = "GetTicket" /\ last'.result # None) =>
              (last'.result[1].AssignedToUserId = NULL
                  => tickets'[last'.id].TechnicianId = NULL)
      ]_vars

\* C22: when a batch run stops after some of its tickets, the tickets it had
\* taken are stored assigned (to an active, linked technician and that
\* technician's user, InProgress) when a technician was eligible, the tickets
\* it had not reached and every other ticket are unchanged; a run started
\* afterwards, in whatever order, changes no ticket that is assigned and
\* assigns only unassigned ones; and no run, stopped or finished, changes a
\* ticket that was assigned before it.
C22_StoppedBatchResumes ==
    [][/\ last'.op = "AssignBatchStopped" =>
            LET order == last'.order
                taken == {order[i] : i \in 1..last'.done}
            IN /\ \A id \in DOMAIN tickets \ taken : tickets'[id] = tickets[id]
               /\ \A id \in taken :
                      IF ActiveAndLinked = {} THEN tickets'[id] = tickets[id]
                      ELSE /\ tickets'[id].TechnicianId \in ActiveAndLinked
                           /\ tickets'[id].AssignedToUserId =
                                 technicians[tickets'[id].TechnicianId].UserId
                           /\ tickets'[id].Status = "InProgress"
               /\ \A again \in Orders(UnassignedTickets(tickets', NoTime, NoTime)) :
                      LET rerun == AssignEach(tickets', technicians', again, now', 0)
                      IN \A id \in DOMAIN tickets' :
                            \/ rerun.tickets[id] = tickets'[id]
                            \/ /\ tickets'[id].TechnicianId = NULL
                               /\ rerun.tickets[id].TechnicianId # NULL
       /\ last'.op \in {"AssignBatch", "AssignBatchStopped"} =>
            \A id \in DOMAIN tickets :
               tickets[id].TechnicianId # NULL => tickets'[id] = tickets[id]
      ]_vars

\* C22 witness: a run over three unassigned tickets stopped after two; those
\* two are assigned and the third is not.
C22_Witness ==
    /\ last.op = "AssignBatchStopped"
    /\ Len(last.order) = 3
    /\ last.done = 2
    /\ \A i \in 1..2 : tickets[last.order[i]].TechnicianId # NULL
    /\ tickets[last.order[3]].TechnicianId = NULL

\* C23: while AutoAssignEnabled is false a run request is answered BadRequest
\* and changes no ticket, so that a batch runs only with the toggle on; a
\* direct AssignOne call assigns exactly when the ticket exists, is unassigned
\* and a technician is active and linked, and a batch counts exactly the
\* tickets it assigned, whatever the toggle says.
C23_ToggleGatesCallerOnly ==
    [][/\ last'.op = "RunSmartAssignment" =>
            /\ ~settings.AutoAssignEnabled
            /\ last'.result = "BadRequest"
            /\ tickets' = tickets
       /\ last'.op = "AssignBatch" => settings.AutoAssignEnabled
       /\ (last = Idle /\ last' # Idle /\ ~settings.AutoAssignEnabled
              /\ last'.op \notin {"AssignOne", "CreateTicket", "UpdateTicket"})
            => tickets' = tickets
       /\ last'.op = "AssignOne" =>
            /\ last'.result # NULL
                  <=> /\ last'.id \in DOMAIN tickets
                      /\ tickets[last'.id].TechnicianId = NULL
                      /\ ActiveAndLinked # {}
            /\ last'.result # NULL
                  => /\ tickets'[last'.id].TechnicianId = last'.result
                     /\ last'.result \in ActiveAndLinked
            /\ last'.result = NULL => tickets' = tickets
       /\ last'.op = "AssignBatch" =>
            last'.result = Cardinality({id \in DOMAIN tickets :
                                          /\ tickets[id].TechnicianId = NULL
                                          /\ tickets'[id].TechnicianId # NULL})
      ]_vars

\* C23 witness: with the toggle off, an unassigned ticket and a technician
\* active and linked, a run request was answered BadRequest.
C23_Witness ==
    /\ last.op = "RunSmartAssignment"
    /\ last.result = "BadRequest"
    /\ ~settings.AutoAssignEnabled
    /\ ActiveAndLinked # {}
    /\ \E id \in TicketIds : tickets[id].TechnicianId = NULL

\* The ticket responses a delivered answer carries: the one of GetTicket,
\* CreateTicket, UpdateTicket and AssignTicket, the rows of GetTickets.
ResponsesOf(answer) ==
    IF answer.op \in {"GetTicket", "CreateTicket", "UpdateTicket", "AssignTicket"}
    THEN {answer.result[i] : i \in DOMAIN answer.result}
    ELSE IF answer.op = "GetTickets"
    THEN {MapToResponse(tickets, id) : id \in answer.result}
    ELSE {}

\* C24: in every ticket response, AssignedToName, AssignedToEmail,
\* AssignedToPhoneNumber and AssignedTechnicianName are null whenever
\* AssignedToUserId is null, also for a ticket whose TechnicianId is set.
C24_UnassignedShowsNoContact ==
    \A r \in ResponsesOf(last) :
       r.AssignedToUserId = NULL =>
          /\ r.AssignedToName = NULL
          /\ r.AssignedToEmail = NULL
          /\ r.AssignedToPhoneNumber = NULL
          /\ r.AssignedTechnicianName = NULL

\* C24 witness: GetTicket answered a ticket that has a TechnicianId and no
\* AssignedToUserId.
C24_Witness ==
    /\ last.op = "GetTicket"
    /\ last.result # None
    /\ tickets[last.id].TechnicianId # NULL
    /\ last.result[1].AssignedToUserId = NULL

\* C25: when AssignOne or AssignBatch has assigned a ticket to a technician
\* whose linked user is U, the ticket is in the unfiltered list of U as
\* Technician and is in scope of GetTicket, UpdateTicket and AddMessage for
\* U; and while the ticket stays assigned to that pair, the calls U makes
\* are answered so.
C25_AssignedTechnicianSeesTicket ==
    [][\A id \in DOMAIN tickets :
          /\ (last'.op \in {"AssignOne", "AssignBatch"}
                 /\ tickets[id].TechnicianId = NULL
                 /\ tickets'[id].TechnicianId # NULL)
               => LET U == technicians[tickets'[id].TechnicianId].UserId
                  IN /\ U # NULL
                     /\ id \in GetTicketsAsync(tickets', U, "Technician", NoFilter)
                     /\ GetTicketAsync(tickets', id, U, "Technician") # None
                     /\ ~UpdateAccessDenied(tickets'[id], U, "Technician")
                     /\ ~MessageAccessDenied(tickets'[id], U, "Technician")
          /\ (/\ tickets[id].TechnicianId \in DOMAIN technicians
              /\ tickets[id].AssignedToUserId # NULL
              /\ tickets[id].AssignedToUserId
                    = technicians[tickets[id].TechnicianId].UserId
              /\ last = Idle
              /\ last'.op \in {"GetTickets", "GetTicket", "UpdateTicket", "AddMessage"}
              /\ last'.userId = tickets[id].AssignedToUserId)
               => /\ (last'.op = "GetTickets" /\ last'.filter = NoFilter)
                       => id \in last'.result
                  /\ (last'.op \in {"GetTicket", "UpdateTicket", "AddMessage"}
                         /\ last'.id = id)
                       => last'.result # None
      ]_vars

\* C25 witness: the engine has just assigned ticket 1 to k1, whose user u1
\* finds it in the unfiltered Technician list.
C25_Witness ==
    /\ last.op \in {"AssignOne", "AssignBatch"}
    /\ 1 \in TicketIds
    /\ tickets[1].TechnicianId = "k1"
    /\ tickets[1].UpdatedAt = now
    /\ 1 \in GetTicketsAsync(tickets, "u1", "Technician", NoFilter)
    /\ \/ last.op = "AssignOne" /\ last.result = "k1"
       \/ last.op = "AssignBatch" /\ last.result = 1

\* C26: the Status stored on the message AddMessage appends is the status
\* the ticket has right after the call, for every role and every requested
\* status, a Client's ignored request included.
C26_SnapshotIsTicketStatus ==
    [][(last = Idle /\ last'.op = "AddMessage" /\ last'.result # None)
          => /\ Len(messages') = Len(messages) + 1
             /\ messages'[Len(messages')].Status = tickets'[last'.id].Status
      ]_vars

\* C27: a successful AddMessage hands exactly one notification to the sink,
\* addressed to the assigned user when the author is the creator of the
\* ticket and to the creator otherwise, and never to the author.
C27_NotifiesOtherParty ==
    [][(last = Idle /\ last'.op = "AddMessage" /\ last'.result # None)
          => /\ Len(notifications') = Len(notifications) + 1
             /\ SubSeq(notifications', 1, Len(notifications)) = notifications
             /\ LET n == notifications'[Len(notifications')]
                    t == tickets'[last'.id]
                    author == last'.userId
                IN /\ n.TicketId = last'.id
                   /\ n.UserId = IF author = t.CreatedByUserId
                                 THEN t.AssignedToUserId
                                 ELSE t.CreatedByUserId
                   /\ n.UserId # author
      ]_vars

\* C28: when the notification sink fails in AddMessage, the message is
\* stored, the ticket carries the status the call set and the new UpdatedAt,
\* and every other ticket and message is as before.
C28_SinkFailureKeepsMutation ==
    [][(last = Idle /\ last'.op = "AddMessage"
          /\ last'.thrown = "NotificationFailed")
          => LET id == last'.id
                 row == messages'[Len(messages')]
             IN /\ Len(messages') = Len(messages) + 1
                /\ SubSeq(messages', 1, Len(messages)) = messages
                /\ row.TicketId = id
                /\ row.AuthorUserId = last'.userId
                /\ tickets'[id] =
                      [tickets[id] EXCEPT
                          !.Status = MessageStatus(tickets[id], last'.role,
                                                   last'.status),
                          !.UpdatedAt = now]
                /\ \A other \in DOMAIN tickets \ {id} :
                      tickets'[other] = tickets[other]
      ]_vars

\* C28 witness: the sink failed on a message that resolved the ticket; the
\* message and the status are stored, no notification is.
C28_Witness ==
    /\ last.op = "AddMessage"
    /\ last.thrown = "NotificationFailed"
    /\ last.status = "Resolved"
    /\ last.before[1].Status # "Resolved"
    /\ tickets[last.id].Status = "Resolved"
    /\ messages # <<>>
    /\ messages[Len(messages)].AuthorUserId = last.userId
    /\ notifications = <<>>

\* C29: no step changes or removes a stored message: the messages before a
\* step are a prefix of the messages after it, and only AddMessage adds one.
C29_MessagesAppendOnly ==
    [][/\ Len(messages') >= Len(messages)
       /\ SubSeq(messages', 1, Len(messages)) = messages
       /\ last'.op # "AddMessage" => messages' = messages
      ]_vars

\* C29 witness: with a message stored, the ticket was assigned by the engine
\* and a second message was appended behind the first.
C29_Witness ==
    /\ Len(messages) = 2
    /\ last.op = "AddMessage"
    /\ last.result # None
    /\ messages[1].Status = "New"
    /\ tickets[messages[1].TicketId].TechnicianId # NULL
    /\ tickets[messages[1].TicketId].Status = "Resolved"

\* C30: LinkUser on a profile that has a UserId answers AlreadyLinked; each
\* of TechnicianNotFound, AlreadyLinked, UserNotFound and
\* UserNotTechnicianRole leaves every profile as it was; Success sets the
\* UserId of a profile that had none, and nothing else; and no step of
\* LinkUser, UpdateTechnician or UpdateTechnicianStatus changes a UserId that
\* is set.
C30_LinkedUserSetOnce ==
    [][/\ last'.op = "LinkUser" =>
            LET k == last'.technicianId
            IN /\ last'.result \in {"Success", "TechnicianNotFound", "AlreadyLinked",
                                     "UserNotFound", "UserNotTechnicianRole"}
               /\ (k \in DOMAIN technicians /\ technicians[k].UserId # NULL)
                     => last'.result = "AlreadyLinked"
               /\ last'.result = "TechnicianNotFound" <=> k \notin DOMAIN technicians
               /\ last'.result # "Success" => technicians' = technicians
               /\ last'.result = "Success"
                     => /\ technicians[k].UserId = NULL
                        /\ last'.userId \in DOMAIN users
                        /\ users[last'.userId].Role = "Technician"
                        /\ technicians' =
                              [technicians EXCEPT ![k].UserId = last'.userId]
       /\ \A k \in DOMAIN technicians :
              technicians[k].UserId # NULL
                 => technicians'[k].UserId = technicians[k].UserId
      ]_vars

\* C30 witness: LinkUser of k1, linked to u1, with the Technician user u2
\* was answered AlreadyLinked, and k1 is still linked to u1.
C30_Witness ==
    /\ last.op = "LinkUser"
    /\ last.technicianId = "k1"
    /\ last.userId = "u2"
    /\ last.result = "AlreadyLinked"
    /\ technicians["k1"].UserId = "u1"

\* C31: no two distinct technician profiles are linked to the same user,
\* whatever CreateTechnician and LinkUser calls were made.
C31_LinkOneToOne ==
    \A j, k \in DOMAIN technicians :
        (j # k /\ technicians[j].UserId # NULL)
           => technicians[j].UserId # technicians[k].UserId

\* C32: in every state each linked user of a profile is an existing user
\* with role Technician; LinkUser with a user of another role links nothing;
\* and no step changes the role of a user that stays in the store.
C32_LinkedUserIsTechnician ==
    /\ [](\A k \in DOMAIN technicians :
             technicians[k].UserId # NULL
                => /\ technicians[k].UserId \in DOMAIN users
                   /\ users[technicians[k].UserId].Role = "Technician")
    /\ [][/\ (/\ last'.op = "LinkUser"
               /\ last'.userId \in DOMAIN users
               /\ users[last'.userId].Role # "Technician")
                 => /\ last'.result # "Success"
                    /\ technicians' = technicians
          /\ \A u \in DOMAIN users \cap DOMAIN users' :
                 users'[u].Role = users[u].Role
         ]_vars

\* C32 witness: the registered Technician user n1 was linked to profile k2,
\* then updated its address and changed its password.
C32_Witness ==
    /\ "n1" \in DOMAIN users
    /\ technicians["k2"].UserId = "n1"
    /\ users["n1"].Email = <<"n", "9", "@", "t">>
    /\ last.op = "ChangePassword"
    /\ last.userId = "n1"
    /\ last.result = "Success"

\* Two addresses are equal ignoring case.
SameIgnoringCase(a, b) ==
    /\ Len(a) = Len(b)
    /\ \A i \in DOMAIN a :
          \/ a[i] = b[i]
          \/ a[i] \in DOMAIN LowerCase /\ LowerCase[a[i]] = b[i]
          \/ b[i] \in DOMAIN LowerCase /\ LowerCase[b[i]] = a[i]

C34_BatchSpreadsEvenly ==
    [][(/\ last = Idle
        /\ last'.op = "AssignBatch"
        /\ \A j, k \in ActiveAndLinked :
              Cardinality(OpenTicketsOf(tickets, j))
                 = Cardinality(OpenTicketsOf(tickets, k)))
          => LET got(k) == Cardinality({id \in DOMAIN tickets :
                                           /\ tickets[id].TechnicianId = NULL
                                           /\ tickets'[id].TechnicianId = k})
             IN \A j, k \in ActiveAndLinked : got(j) - got(k) \in -1..1
      ]_vars

\* C34 witness: one run assigned three tickets, two to one technician and
\* one to another.
C34_Witness ==
    /\ last.op = "AssignBatch"
    /\ last.result = 3
    /\ Len(tickets) = 3
    /\ \E j, k \in ActiveAndLinked :
          /\ Cardinality({id \in DOMAIN tickets : tickets[id].TechnicianId = j}) = 2
          /\ Cardinality({id \in DOMAIN tickets : tickets[id].TechnicianId = k}) = 1

\* C35: some technician is active and linked in every state of SpecRun; a
\* run without a date range that has loaded its list returns; when it
\* returns, every ticket that existed when it loaded the list has a
\* technician and the count equals the number of tickets that had none then.
C35_BatchAssignsAll ==
    /\ [](ActiveAndLinked # {})
    /\ (pending.pc = "batch" ~> pending.pc = "returned")
    /\ [][(pending.pc = "batch" /\ pending'.pc = "returned")
            => LET before == pending.before
               IN /\ pending.startDate = NoTime /\ pending.endDate = NoTime
                  /\ \A id \in DOMAIN before : tickets'[id].TechnicianId # NULL
                  /\ pending'.result =
                        Cardinality({id \in DOMAIN before :
                                        before[id].TechnicianId = NULL})
          ]_vars

\* C35 witness: a run returned 2, with two tickets in the store when it
\* loaded its list, both unassigned; a ticket created during the run is left
\* without a technician.
C35_Witness ==
    /\ pending.pc = "returned"
    /\ pending.result = 2
    /\ Len(pending.before) = 2
    /\ Len(tickets) = 3
    /\ tickets[3].TechnicianId = NULL
    /\ \A id \in DOMAIN pending.before : tickets[id].TechnicianId # NULL

\* C36: of the AssignTechnicianToTicketAsync calls that interleave on one
\* unassigned ticket at most one reports an assignment: a call that returns
\* a technician writes to a ticket that no other call has given one since
\* it was loaded (in SpecWrite only these calls write TechnicianId), and it
\* leaves the ticket with the profile/user pair of the technician it returns.
C36_OneCallAssigns ==
    [][(engine.pc = "save" /\ engine' = NoCall /\ last'.result # NULL)
          => LET id == engine.ticketId
             IN /\ tickets[id].TechnicianId = NULL
                /\ tickets'[id].TechnicianId = last'.result
                /\ tickets'[id].AssignedToUserId
                      = engine.tracked[last'.result].UserId
      ]_vars

\* C37: the engine takes a ticket as unassigned when its TechnicianId is
\* null, whatever its AssignedToUserId: while a technician is eligible, a
\* ticket without technician that carries an assigned user is assigned by
\* AssignTechnicianToTicketAsync, alone or from the batch, and its
\* AssignedToUserId becomes the user of the technician selected.
C37_AssignedUserReplaced ==
    [][/\ (/\ last = Idle
           /\ last'.op = "AssignOne"
           /\ last'.id \in TicketIds
           /\ tickets[last'.id].TechnicianId = NULL
           /\ tickets[last'.id].AssignedToUserId # NULL
           /\ EligibleTechnicians(technicians) # {})
          => /\ last'.result \in EligibleTechnicians(technicians)
             /\ tickets'[last'.id].TechnicianId = last'.result
             /\ tickets'[last'.id].AssignedToUserId
                   = technicians[last'.result].UserId
       /\ (/\ last = Idle
           /\ last'.op = "AssignBatch"
           /\ EligibleTechnicians(technicians) # {})
          => \A id \in TicketIds :
                (tickets[id].TechnicianId = NULL /\ tickets[id].AssignedToUserId # NULL)
                   => /\ tickets'[id].TechnicianId \in EligibleTechnicians(technicians)
                      /\ tickets'[id].AssignedToUserId
                            = technicians[tickets'[id].TechnicianId].UserId
      ]_vars

\* The Admin named u2 on a ticket without technician; the engine has given
\* the ticket to k1 and the assigned user is now u1.
C37_Witness ==
    /\ last.op = "AssignOne"
    /\ last.before # None
    /\ last.before[1].TechnicianId = NULL
    /\ last.before[1].AssignedToUserId = "u2"
    /\ last.result = "k1"
    /\ tickets[last.id].AssignedToUserId = "u1"

\* C38: the engine's assignment sets the status to InProgress whatever the
\* status was: while a technician is eligible, a ticket without technician
\* is InProgress after the AssignTechnicianToTicketAsync call that names it
\* and after a batch run, also when its creator had closed it or set it to
\* WaitingForClient.
C38_AssignedIsInProgress ==
    [][\A id \in TicketIds :
          (/\ last = Idle
           /\ \/ last'.op = "AssignOne" /\ last'.id = id
              \/ last'.op = "AssignBatch"
           /\ tickets[id].TechnicianId = NULL
           /\ EligibleTechnicians(technicians) # {})
             => /\ tickets'[id].TechnicianId # NULL
                /\ tickets'[id].Status = "InProgress"
      ]_vars

\* The creator closed the ticket while it had no technician; the engine has
\* assigned it and it is InProgress.
C38_Witness ==
    /\ last.op = "AssignOne"
    /\ last.before # None
    /\ last.before[1].Status = "Closed"
    /\ last.before[1].TechnicianId = NULL
    /\ last.result # NULL
    /\ tickets[last.id].Status = "InProgress"

C40_AdminPatchDueDate ==
    [][(/\ last = Idle
        /\ last'.op = "UpdateTicket"
        /\ last'.role = "Admin"
        /\ last'.id \in TicketIds)
          => LET r == last'.request
                 old == tickets[last'.id]
                 new == tickets'[last'.id]
             IN /\ new.DueDate = r.DueDate
                /\ r.AssignedToUserId = NULL
                      => new.AssignedToUserId = old.AssignedToUserId
                /\ r.Description = NULL => new.Description = old.Description
                /\ r.Priority = NULL => new.Priority = old.Priority
                /\ r.Status = NULL => new.Status = old.Status
      ]_vars

\* An Admin patch that carries a status and nothing else has cleared the due
\* date of a ticket and left its other fields as they were.
C40_Witness ==
    /\ last.op = "UpdateTicket"
    /\ last.role = "Admin"
    /\ last.request = StatusPatch("Resolved")
    /\ last.before # None
    /\ last.before[1].DueDate = MaxTime
    /\ last.before[1].AssignedToUserId = "u1"
    /\ last.before[1].Description = "d1"
    /\ last.before[1].Priority = "High"
    /\ tickets[last.id] = [last.before[1] EXCEPT !.DueDate = NoTime,
                                                  !.Status = "Resolved",
                                                  !.UpdatedAt = now]

====
